---- MODULE Spec2Model ----
(***************************************************************************)
(* A model of the upstream dispatch and resilience layer of mosdns-lts:    *)
(* the QoS primitives (CircuitBreaker, AdaptiveTimeout, RequestQueue), the *)
(* HTTP/3 connection pool, the weighted upstream selector and the          *)
(* resilient DoQ exchanger.  Every component has its own next-state        *)
(* relation and specification; the components share the clock `now`.       *)
(***************************************************************************)
EXTENDS Integers, Sequences, FiniteSets, TLC

VARIABLES
    now,        \* the wall clock, time.Now(), in ticks
    cb,         \* the CircuitBreaker: its configuration, fields and the
                \* callback invocations made by the latest operation
    cbPc,       \* per caller: where it is in Execute
    cbSeen,     \* per caller: the state beforeExecute read through State()
    at,         \* the AdaptiveTimeout: its configuration and fields
    rq,         \* the RequestQueue: its configuration, heap and counters
    rqRet,      \* what the latest RequestQueue call returned
    pool,       \* the ConnPool: its configuration, conns and closed flag
    pcs,        \* every pooledConn the dialer can make: its fields and the
                \* state of its QUIC connection
    poolPc,     \* the calls and loops that have read the closed flag and
                \* have not taken the mutex yet
    leased,     \* for every pooledConn, the callers that hold it: Get has
                \* returned it to them and they have not released it yet
    poolRet,    \* what the ConnPool call that returns in the latest step
                \* returns
    closeReturned,  \* a Close call has returned
    sel,        \* the upstreamSelector: cachedOrder, lastUpdate, and whether
                \* a selectUpstreams call has panicked
    selPc,      \* per caller: 0, or the count of its selectUpstreams call
                \* that has left the read lock and waits for the write lock
    selRet,     \* what the latest selectUpstreams call returned
    doq,        \* the ResilientQuicConn: whether its connection's context
                \* is done, its AdaptiveTimeout and its CircuitBreaker
    ex,         \* the resilientExchanger in use: where its caller and the
                \* goroutine of ExchangeReserved are, and their locals
    stream,     \* the QUIC stream of that exchanger
    doqRet,     \* what the latest ResilientQuicConn or exchanger call returned
    au,         \* the adaptive DoH Upstream: current, preferred, trialDone,
                \* its settings and the statistics of both protocols
    auPc,       \* per caller of ExchangeContext: where it is and its locals
    auRet,      \* what the latest ExchangeContext call returned
    loop,       \* the loop of TestSelectUpstreams over one selector: the
                \* iterations made and its selectionCount
    udp,        \* ServeUDP: its options, its worker pool with the request
                \* channel of every worker, and how far its read loop is
    dg,         \* every datagram the socket delivers: its read buffer, its
                \* dns.Msg and where its handling is
    shuf        \* a Shuffle, the response it is executed on, and the
                \* response as it was before

cbVars == <<cb, cbPc, cbSeen>>
atVars == <<at>>
rqVars == <<rq, rqRet>>
poolVars == <<pool, pcs, poolPc, leased, poolRet, closeReturned>>
selVars == <<sel, selPc, selRet>>
doqVars == <<doq, ex, stream, doqRet>>
auVars == <<au, auPc, auRet>>
loopVars == <<loop>>
udpVars == <<udp, dg>>
shufVars == <<shuf>>

vars ==
    <<now, cbVars, atVars, rqVars, poolVars, selVars, doqVars, auVars, loopVars,
      udpVars, shufVars>>

\* What the actions of one component leave alone.
cbOthers ==
    <<atVars, rqVars, poolVars, selVars, doqVars, auVars, loopVars, udpVars, shufVars>>
atOthers ==
    <<cbVars, rqVars, poolVars, selVars, doqVars, auVars, loopVars, udpVars, shufVars>>
rqOthers ==
    <<cbVars, atVars, poolVars, selVars, doqVars, auVars, loopVars, udpVars, shufVars>>
poolOthers ==
    <<cbVars, atVars, rqVars, selVars, doqVars, auVars, loopVars, udpVars, shufVars>>
selOthers ==
    <<cbVars, atVars, rqVars, poolVars, doqVars, auVars, loopVars, udpVars, shufVars>>
doqOthers ==
    <<cbVars, atVars, rqVars, poolVars, selVars, auVars, loopVars, udpVars, shufVars>>
auOthers ==
    <<cbVars, atVars, rqVars, poolVars, selVars, doqVars, loopVars, udpVars, shufVars>>
loopOthers == <<cbVars, atVars, rqVars, poolVars, doqVars, auVars, udpVars, shufVars>>
udpOthers ==
    <<cbVars, atVars, rqVars, poolVars, selVars, doqVars, auVars, loopVars, shufVars>>
shufOthers ==
    <<cbVars, atVars, rqVars, poolVars, selVars, doqVars, auVars, loopVars, udpVars>>

\* ------------------------------------------------------------------ bounds

\* The clock stops advancing here.
MaxTime == 4

\* Counters that only ever grow stop growing here.
MaxCount == 3

\* Concurrent callers of one CircuitBreaker.
NumCallers == 2

\* The breaker configuration the model runs with.
CfgMaxFailures == 2
CfgResetTimeout == 2
CfgHalfOpenAttempts == 2

\* The width of a time.Duration in the model, in bits.
DurBits == 8

\* RecordSuccess is given durations up to this.
MaxSample == 6

\* Consecutive timeouts stop being recorded here.
MaxTimeouts == 5

\* The RequestQueue configuration the model runs with, the largest priority
\* value a request carries, how far the clock runs for the queue and where
\* its counters stop.
CfgMaxSize == 3
CfgMaxWaitTime == 1
MaxPriority == 2
RqMaxTime == 2
RqMaxCount == 1

\* The connections the dialer can make, how far the clock runs for the pool,
\* and how many Get calls run at once.
MaxDials == 2
PoolMaxTime == 2
NumGetters == 2

\* The upstreams of the selector, the largest count selectUpstreams is called
\* with, the largest score of an upstream, the concurrent callers of the
\* selector and how far the clock runs for it.
NumUpstreams == 3
SelMaxCount == 4
MaxScore == 2
NumSelCallers == 2
SelMaxTime == 3

\* The iterations of the loop of TestSelectUpstreams.
Iterations == 5

\* runtime.NumCPU() of the machine, and the datagrams the socket delivers.
NumCPU == 2
MaxDatagrams == 3

\* The records the Extra section of a response holds at most, and the
\* records its Answer and Ns sections hold at most.
MaxSection == 3
MaxPlain == 2
\* Zero requests a worker is followed through after its channel is closed.
MaxZeroRequests == 2

\* The largest value of a byte of a DNS message, the length of the messages
\* exchanged (the two bytes of the ID and what follows them), how far the
\* clock runs for a DoQ connection and where its AdaptiveTimeout stops
\* counting.
MaxByte == 1
MsgLen == 3
DoqMaxTime == 1
DoqMaxCount == 2

\* The ExchangeContext calls made in all on one adaptive Upstream, and the
\* TrialCount the Upstream is built with.
AuMaxCalls == 5
CfgTrialCount == 4

\* ------------------------------------------------------- program constants

\* NewAdaptiveTimeout's defaults in units of 250 ms: 2 s, 500 ms, 30 s, and
\* twice the default congestion multiplier 4.0.
DefaultBaseTimeout == 8
DefaultMinTimeout == 2
DefaultMaxTimeout == 120
DefaultCongestionMult2 == 8

\* weightCacheTTL, 5 s, in the selector's ticks of 2.5 s.
weightCacheTTL == 2

\* The depth of the request channel of a UDP worker.
RequestChanDepth == 128

\* defaultPreferenceRatio, 0.8, in tenths, and defaultTrialCount.
defaultPreferenceRatio10 == 8
defaultTrialCount == 10

\* ------------------------------------------------------------------ clock

Tick ==
    /\ now < MaxTime
    /\ now' = now + 1

\* ------------------------------------------------------- CircuitBreaker

StateClosed == "Closed"
StateHalfOpen == "HalfOpen"
StateOpen == "Open"

CircuitStates == {StateClosed, StateHalfOpen, StateOpen}

Callers == 1..NumCallers

\* The zero atomic.Value: Load() returns nil.
NoValue == [dyn |-> "nil", t |-> 0]

\* NewCircuitBreaker: the defaults for non-positive settings, state Closed.
NewCircuitBreaker(cfg) ==
    [ maxFailures      |-> IF cfg.MaxFailures <= 0 THEN 10 ELSE cfg.MaxFailures,
      resetTimeout     |-> IF cfg.ResetTimeout <= 0 THEN 60 ELSE cfg.ResetTimeout,
      halfOpenAttempts |-> IF cfg.HalfOpenAttempts <= 0 THEN 3 ELSE cfg.HalfOpenAttempts,
      state            |-> StateClosed,
      failures         |-> 0,
      successCount     |-> 0,
      lastFailureTime  |-> NoValue,
      halfOpenSuccess  |-> 0,
      onStateChange    |-> FALSE,
      fired            |-> << >> ]

\* transitionTo: assign the state, zero the counters the new state zeroes, and
\* invoke the registered callback with (old, new).
transitionTo(c, newState) ==
    [ c EXCEPT
        !.state = newState,
        !.failures = IF newState = StateClosed THEN 0 ELSE @,
        !.halfOpenSuccess =
            IF newState = StateClosed \/ newState = StateOpen THEN 0 ELSE @,
        !.fired = IF c.onStateChange THEN Append(@, <<c.state, newState>>) ELSE @ ]

\* recordFailure opening the breaker one failure late.
recordFailureLate(c, t) ==
    LET c1 == [c EXCEPT !.lastFailureTime = [dyn |-> "*time.Time", t |-> t]]
    IN  IF c1.state = StateClosed /\ c1.failures > c1.maxFailures
          THEN transitionTo(c1, StateOpen)
          ELSE IF c1.state = StateHalfOpen
                 THEN transitionTo(c1, StateOpen)
                 ELSE c1

\* recordFailure: lastFailureTime.Store(&now) stores a *time.Time.
recordFailure(c, t) ==
    LET c1 == [c EXCEPT !.lastFailureTime = [dyn |-> "*time.Time", t |-> t]]
    IN  IF c1.state = StateClosed /\ c1.failures >= c1.maxFailures
          THEN transitionTo(c1, StateOpen)
          ELSE IF c1.state = StateHalfOpen
                 THEN transitionTo(c1, StateOpen)
                 ELSE c1

\* shouldAttemptReset reading the time through the stored pointer.
shouldAttemptResetThroughPointer(c, t) ==
    IF c.lastFailureTime.dyn = "nil"
      THEN FALSE
      ELSE t - c.lastFailureTime.t >= c.resetTimeout

\* shouldAttemptReset: nil gives false; the type assertion
\* lastFailure.(time.Time) gives ok only for a stored time.Time value.
shouldAttemptReset(c, t) ==
    IF c.lastFailureTime.dyn = "nil"
      THEN FALSE
      ELSE IF c.lastFailureTime.dyn # "time.Time"
             THEN FALSE
             ELSE t - c.lastFailureTime.t >= c.resetTimeout

\* afterExecute, under the write lock.
afterExecute(c, failed, t) ==
    IF failed
      THEN recordFailure([c EXCEPT !.failures = @ + 1], t)
      ELSE LET c1 == [c EXCEPT !.successCount = @ + 1]
           IN  IF c.state = StateHalfOpen
                 THEN LET c2 == [c1 EXCEPT !.halfOpenSuccess = @ + 1]
                      IN  IF c2.halfOpenSuccess >= c2.halfOpenAttempts
                            THEN transitionTo(c2, StateClosed)
                            ELSE c2
                 ELSE [c1 EXCEPT !.failures = 0]

\* Reset, under the write lock: the fields are assigned directly.
Reset(c) ==
    [c EXCEPT !.state = StateClosed, !.failures = 0, !.halfOpenSuccess = 0]

\* A fresh operation has invoked no callback yet.
Begin(c) == [c EXCEPT !.fired = << >>]

CbInit ==
    /\ cb = NewCircuitBreaker([ MaxFailures      |-> CfgMaxFailures,
                                ResetTimeout     |-> CfgResetTimeout,
                                HalfOpenAttempts |-> CfgHalfOpenAttempts ])
    /\ cbPc = [p \in Callers |-> "idle"]
    /\ cbSeen = [p \in Callers |-> StateClosed]

\* SetStateChangeCallback.
CbSetStateChangeCallback ==
    /\ ~cb.onStateChange
    /\ cb' = [Begin(cb) EXCEPT !.onStateChange = TRUE]
    /\ UNCHANGED <<now, cbPc, cbSeen>>
    /\ UNCHANGED cbOthers

\* beforeExecute, first half: state := cb.State(), under the read lock.
CbBeforeRead(p) ==
    /\ cbPc[p] = "idle"
    /\ cbSeen' = [cbSeen EXCEPT ![p] = cb.state]
    /\ cbPc' = [cbPc EXCEPT ![p] = "before"]
    /\ cb' = Begin(cb)
    /\ UNCHANGED now
    /\ UNCHANGED cbOthers

\* beforeExecute, second half, without the lock: an Open breaker whose reset
\* timeout has passed goes to HalfOpen and admits, an Open breaker otherwise
\* rejects, any other state admits.
CbBeforeDecide(p) ==
    /\ cbPc[p] = "before"
    /\ IF cbSeen[p] = StateOpen
         THEN IF shouldAttemptReset(cb, now)
                THEN /\ cb' = transitionTo(Begin(cb), StateHalfOpen)
                     /\ cbPc' = [cbPc EXCEPT ![p] = "exec"]
                ELSE /\ cb' = Begin(cb)
                     /\ cbPc' = [cbPc EXCEPT ![p] = "idle"]
         ELSE /\ cb' = Begin(cb)
              /\ cbPc' = [cbPc EXCEPT ![p] = "exec"]
    /\ UNCHANGED <<now, cbSeen>>
    /\ UNCHANGED cbOthers

\* afterExecute(failed), at the end of Execute or called on its own.
CbAfterExecute(p, failed) ==
    /\ cbPc[p] \in {"idle", "exec"}
    /\ cb.failures < MaxCount
    /\ cb.successCount < MaxCount
    /\ cb' = afterExecute(Begin(cb), failed, now)
    /\ cbPc' = [cbPc EXCEPT ![p] = "idle"]
    /\ UNCHANGED <<now, cbSeen>>
    /\ UNCHANGED cbOthers

\* Reset.
CbReset ==
    /\ cb' = Reset(Begin(cb))
    /\ UNCHANGED <<now, cbPc, cbSeen>>
    /\ UNCHANGED cbOthers

CbTick == Tick /\ UNCHANGED <<cbVars, cbOthers>>

CbNext ==
    \/ CbSetStateChangeCallback
    \/ \E p \in Callers : CbBeforeRead(p)
    \/ \E p \in Callers : CbBeforeDecide(p)
    \/ \E p \in Callers, failed \in BOOLEAN : CbAfterExecute(p, failed)
    \/ CbReset
    \/ CbTick

\* ------------------------------------------------------ AdaptiveTimeout
\* A time.Duration is a signed integer of DurBits bits (64 in the program);
\* one unit is 250 ms.

RECURSIVE Pow2(_)
Pow2(n) == IF n = 0 THEN 1 ELSE 2 * Pow2(n - 1)

DurMin == -Pow2(DurBits - 1)
DurMax == Pow2(DurBits - 1) - 1

\* Integer arithmetic on a Duration wraps around.
Wrap(x) == ((x - DurMin) % Pow2(DurBits)) + DurMin

\* Go's integer division and float-to-integer conversion truncate toward zero.
TruncDiv(a, b) == IF a >= 0 THEN a \div b ELSE -((-a) \div b)

\* time.Duration(f) for a float64 f = num / den: the truncated value when a
\* Duration can represent it, and an implementation-dependent value otherwise
\* (the smallest Duration on amd64, a saturated one on arm64).
ToDuration(num, den) ==
    LET v == TruncDiv(num, den)
    IN  IF DurMin <= v /\ v <= DurMax THEN {v} ELSE {DurMin, DurMax}

\* NewAdaptiveTimeout.  CongestionMult2 is twice the float CongestionMult.
NewAdaptiveTimeout(cfg) ==
    LET base == IF cfg.BaseTimeout <= 0 THEN DefaultBaseTimeout ELSE cfg.BaseTimeout
        min  == IF cfg.MinTimeout <= 0 THEN DefaultMinTimeout ELSE cfg.MinTimeout
        max  == IF cfg.MaxTimeout <= 0 THEN DefaultMaxTimeout ELSE cfg.MaxTimeout
        mult == IF cfg.CongestionMult2 <= 2 THEN DefaultCongestionMult2
                                            ELSE cfg.CongestionMult2
    IN  [ baseTimeout         |-> base,
          minTimeout          |-> min,
          maxTimeout          |-> max,
          congestionMult2     |-> mult,
          srtt                |-> base,
          rttVar              |-> TruncDiv(base, 2),
          samples             |-> 0,
          consecutiveTimeouts |-> 0 ]

\* |duration - srtt| as RecordSuccess computes it, on wrapping integers.
Deviation(duration, srtt) ==
    LET deviation == Wrap(duration - srtt)
    IN  IF deviation < 0 THEN Wrap(-deviation) ELSE deviation

\* RecordSuccess(duration): the values the call can leave behind.
RecordSuccess(a, duration) ==
    IF a.samples = 0
      THEN { [a EXCEPT !.consecutiveTimeouts = 0,
                       !.srtt = duration,
                       !.rttVar = TruncDiv(duration, 2),
                       !.samples = @ + 1] }
      ELSE UNION
             { { [a EXCEPT !.consecutiveTimeouts = 0,
                           !.srtt = s,
                           !.rttVar = v,
                           !.samples = @ + 1] :
                   v \in ToDuration(Deviation(duration, s) + 3 * a.rttVar, 4) } :
               s \in ToDuration(duration + 7 * a.srtt, 8) }

\* RecordTimeout: the values the call can leave behind.
RecordTimeout(a) ==
    LET count == a.consecutiveTimeouts + 1
        cap2 == 2 + count
        mult2 == IF a.congestionMult2 < cap2 THEN a.congestionMult2 ELSE cap2
    IN  IF count >= 3
          THEN { [a EXCEPT !.consecutiveTimeouts = count, !.srtt = s] :
                   s \in ToDuration(a.srtt * mult2, 2) }
          ELSE { [a EXCEPT !.consecutiveTimeouts = count] }

\* GetTimeout: srtt + 4 rttVar, clamped from below and then from above.
GetTimeout(a) ==
    LET timeout == Wrap(a.srtt + 4 * a.rttVar)
    IN  IF timeout < a.minTimeout
          THEN a.minTimeout
          ELSE IF timeout > a.maxTimeout THEN a.maxTimeout ELSE timeout

\* AdaptiveTimeout.Reset.
ResetTimeout(a) ==
    [a EXCEPT !.srtt = a.baseTimeout,
              !.rttVar = TruncDiv(a.baseTimeout, 2),
              !.samples = 0,
              !.consecutiveTimeouts = 0]

\* The configurations the model builds an AdaptiveTimeout from: every setting
\* left to its default, every setting given, and only MaxTimeout given.
TimeoutConfigs ==
    { [BaseTimeout |-> 0, MinTimeout |-> 0, MaxTimeout |-> 0, CongestionMult2 |-> 0],
      [BaseTimeout |-> 4, MinTimeout |-> 1, MaxTimeout |-> 16, CongestionMult2 |-> 5],
      [BaseTimeout |-> 0, MinTimeout |-> 0, MaxTimeout |-> 1, CongestionMult2 |-> 0] }

\* A TimeoutConfig with every setting left zero.
ZeroTimeoutConfig ==
    [BaseTimeout |-> 0, MinTimeout |-> 0, MaxTimeout |-> 0, CongestionMult2 |-> 0]

AtInit == at \in { NewAdaptiveTimeout(cfg) : cfg \in TimeoutConfigs }

\* The AdaptiveTimeout where the specification of another component leaves it.
AtAside == at = NewAdaptiveTimeout(ZeroTimeoutConfig)

AtRecordSuccess(d) ==
    /\ at.samples < MaxCount
    /\ at' \in RecordSuccess(at, d)
    /\ UNCHANGED <<now, atOthers>>

AtRecordTimeout ==
    /\ at.consecutiveTimeouts < MaxTimeouts
    /\ at' \in RecordTimeout(at)
    /\ UNCHANGED <<now, atOthers>>

AtReset ==
    /\ at' = ResetTimeout(at)
    /\ UNCHANGED <<now, atOthers>>

AtNext ==
    \/ \E d \in 0..MaxSample : AtRecordSuccess(d)
    \/ AtRecordTimeout
    \/ AtReset

\* --------------------------------------------------------- RequestQueue
\* The heap is the slice requestHeap; position i of the slice is element
\* i + 1 of the sequence.

\* Less with the comparison turned around.
LessReversed(h, i, j) == h[i + 1].Priority > h[j + 1].Priority

\* requestHeap.Less.
Less(h, i, j) == h[i + 1].Priority < h[j + 1].Priority

\* requestHeap.Swap: exchange two positions and restamp both indices.
Swap(h, i, j) ==
    [h EXCEPT ![i + 1] = [h[j + 1] EXCEPT !.index = i],
              ![j + 1] = [h[i + 1] EXCEPT !.index = j]]

\* container/heap's up, as heap.Push runs it over requestHeap.
RECURSIVE up(_, _)
up(h, j) ==
    LET i == TruncDiv(j - 1, 2)
    IN  IF i = j \/ ~Less(h, j, i) THEN h ELSE up(Swap(h, i, j), i)

\* container/heap's down, as heap.Pop runs it over requestHeap.
RECURSIVE down(_, _, _)
down(h, i, n) ==
    LET j1 == 2 * i + 1
        j2 == j1 + 1
        j  == IF j2 < n /\ Less(h, j2, j1) THEN j2 ELSE j1
    IN  IF j1 >= n
          THEN h
          ELSE IF ~Less(h, j, i) THEN h ELSE down(Swap(h, i, j), j, n)

\* heap.Push(&q.heap, req): requestHeap.Push appends with index n, then up.
heapPush(h, req) ==
    up(Append(h, [req EXCEPT !.index = Len(h)]), Len(h))

\* heap.Pop(&q.heap): swap the top with the last, down, and requestHeap.Pop
\* takes the last off with index -1.
heapPop(h) ==
    LET n  == Len(h) - 1
        h2 == down(Swap(h, 0, n), 0, n)
    IN  [ heap |-> SubSeq(h2, 1, n),
          req  |-> [h2[n + 1] EXCEPT !.index = -1] ]

\* NewRequestQueue.
NewRequestQueue(cfg) ==
    [ heap           |-> << >>,
      maxSize        |-> IF cfg.MaxSize <= 0 THEN 1000 ELSE cfg.MaxSize,
      maxWaitTime    |-> IF cfg.MaxWaitTime <= 0 THEN 30 ELSE cfg.MaxWaitTime,
      droppedCount   |-> 0,
      processedCount |-> 0 ]

\* Enqueue turning a request away without counting it.
EnqueueUncounted(q, req) ==
    IF Len(q.heap) >= q.maxSize
      THEN [ q   |-> q,
             err |-> "ErrQueueFull" ]
      ELSE [ q   |-> [q EXCEPT !.heap = heapPush(q.heap, req)],
             err |-> "nil" ]

\* Enqueue that first drops the queued requests that have waited more than
\* maxWaitTime when the new request's wait starts.
EnqueuePurgesExpired(q, req) ==
    LET kept == SelectSeq(q.heap, LAMBDA r : req.Timer - r.Timer <= q.maxWaitTime)
    IN  IF Len(kept) >= q.maxSize
          THEN [ q   |-> [q EXCEPT !.heap = kept, !.droppedCount = @ + 1],
                 err |-> "ErrQueueFull" ]
          ELSE [ q   |-> [q EXCEPT !.heap = heapPush(kept, req)],
                 err |-> "nil" ]

\* Enqueue with the capacity test off by one.
EnqueueOffByOne(q, req) ==
    IF Len(q.heap) > q.maxSize
      THEN [ q   |-> [q EXCEPT !.droppedCount = @ + 1],
             err |-> "ErrQueueFull" ]
      ELSE [ q   |-> [q EXCEPT !.heap = heapPush(q.heap, req)],
             err |-> "nil" ]

\* Enqueue: the queue afterwards and the error returned.
Enqueue(q, req) ==
    IF Len(q.heap) >= q.maxSize
      THEN [ q   |-> [q EXCEPT !.droppedCount = @ + 1],
             err |-> "ErrQueueFull" ]
      ELSE [ q   |-> [q EXCEPT !.heap = heapPush(q.heap, req)],
             err |-> "nil" ]

\* Dequeue at time t: the loop that pops expired requests off the top until
\* the top is a valid one.  req is empty for a nil request; skipped counts
\* the expired requests popped on the way.
RECURSIVE Dequeue(_, _, _)
Dequeue(q, t, skipped) ==
    IF Len(q.heap) > 0
      THEN LET req == q.heap[1]
               popped == heapPop(q.heap)
           IN  IF t - req.Timer > q.maxWaitTime
                 THEN Dequeue([q EXCEPT !.heap = popped.heap], t, skipped + 1)
                 ELSE [ q       |-> [q EXCEPT !.heap = popped.heap],
                        req     |-> << popped.req >>,
                        skipped |-> skipped,
                        err     |-> "nil" ]
      ELSE [ q |-> q, req |-> << >>, skipped |-> skipped, err |-> "nil" ]

\* Clear.
Clear(q) == [q EXCEPT !.heap = << >>]

Priorities == 1..MaxPriority

Returned(op, req, skipped, err) ==
    [op |-> op, req |-> req, skipped |-> skipped, err |-> err]

RqInit ==
    /\ rq = NewRequestQueue([MaxSize |-> CfgMaxSize, MaxWaitTime |-> CfgMaxWaitTime])
    /\ rqRet = Returned("none", << >>, 0, "nil")

\* Enqueue(req).  The caller sets req.Priority and req.Timer, the time the
\* request's wait is counted from; Enqueue stamps nothing.
RqEnqueue(priority, timer) ==
    LET r == Enqueue(rq, [Priority |-> priority, Timer |-> timer, index |-> 0])
    IN  /\ r.q.droppedCount <= RqMaxCount
        /\ rq' = r.q
        /\ rqRet' = Returned("Enqueue", << >>, 0, r.err)
        /\ UNCHANGED <<now, rqOthers>>

\* Dequeue(ctx).
RqDequeue ==
    LET r == Dequeue(rq, now, 0)
    IN  /\ rq' = r.q
        /\ rqRet' = Returned("Dequeue", r.req, r.skipped, r.err)
        /\ UNCHANGED <<now, rqOthers>>

\* Clear().
RqClear ==
    /\ rq' = Clear(rq)
    /\ rqRet' = Returned("Clear", << >>, 0, "nil")
    /\ UNCHANGED <<now, rqOthers>>

\* Process(ctx): Dequeue, and return at once when it gave no request or the
\* request has no Execute; otherwise run req.Execute and count the request
\* as processed when it returns nil and as dropped when it returns an error.
RqProcess(hasExecute, failed) ==
    LET r == Dequeue(rq, now, 0)
    IN  /\ IF r.req = << >> \/ ~hasExecute
             THEN /\ rq' = r.q
                  /\ rqRet' = Returned("Process", << >>, r.skipped, "nil")
             ELSE IF failed
                    THEN /\ rq.droppedCount < RqMaxCount
                         /\ rq' = [r.q EXCEPT !.droppedCount = @ + 1]
                         /\ rqRet' = Returned("Process", r.req, r.skipped, "error")
                    ELSE /\ rq.processedCount < RqMaxCount
                         /\ rq' = [r.q EXCEPT !.processedCount = @ + 1]
                         /\ rqRet' = Returned("Process", r.req, r.skipped, "nil")
        /\ UNCHANGED <<now, rqOthers>>

RqTick ==
    /\ now < RqMaxTime
    /\ Tick
    /\ UNCHANGED <<rqVars, rqOthers>>

RqNext ==
    \/ \E priority \in Priorities, timer \in 0..now : RqEnqueue(priority, timer)
    \/ RqDequeue
    \/ RqClear
    \/ \E hasExecute, failed \in BOOLEAN : RqProcess(hasExecute, failed)
    \/ RqTick

\* ------------------------------------------------------------- ConnPool
\* A pooledConn is named by a number; pool.conns lists the pooled ones, oldest
\* first.  conn is the state of its QUIC connection: "none" before the dial,
\* "open", "dead" once its context has an error, "closed" once the pool has
\* called CloseWithError on it.

ConnIds == 1..MaxDials

\* NewConnPool without the step that lowers MinConnections to MaxConnections.
NewConnPoolUnclamped(cfg) ==
    LET max == IF cfg.MaxConnections <= 0 THEN 4 ELSE cfg.MaxConnections
    IN  [ minConnections |-> cfg.MinConnections,
          maxConnections |-> max,
          idleTimeout    |-> IF cfg.IdleTimeout <= 0 THEN 60 ELSE cfg.IdleTimeout,
          conns          |-> << >>,
          closed         |-> FALSE ]

\* NewConnPool.  A negative MinConnections is refused, so the configurations
\* have none.
NewConnPool(cfg) ==
    LET max == IF cfg.MaxConnections <= 0 THEN 4 ELSE cfg.MaxConnections
        min == IF cfg.MinConnections > max THEN max ELSE cfg.MinConnections
    IN  [ minConnections |-> min,
          maxConnections |-> max,
          idleTimeout    |-> IF cfg.IdleTimeout <= 0 THEN 60 ELSE cfg.IdleTimeout,
          conns          |-> << >>,
          closed         |-> FALSE ]

\* The pool and its pooledConns, as the methods below pass them along.
PoolState(p, c) == [pool |-> p, pcs |-> c]

\* conn.CloseWithError.
CloseConn(c, id) == [c EXCEPT ![id].conn = "closed"]

\* A pooledConn that has left conns: its connection is closed, and no method
\* reads its lastUsed or healthy again, so the model stops recording them.
Gone == [conn |-> "closed", lastUsed |-> 0, healthy |-> FALSE]

Forget(c, id) == [c EXCEPT ![id] = Gone]

\* removeConn(index): close the connection and cut it out of conns.
removeConn(s, index) ==
    LET id == s.pool.conns[index + 1]
    IN  PoolState(
          [s.pool EXCEPT !.conns = SubSeq(@, 1, index) \o SubSeq(@, index + 2, Len(@))],
          Forget(CloseConn(s.pcs, id), id))

\* The dialer hands out the connections in order.
Undialed(c) == { id \in ConnIds : c[id].conn = "none" }
NextDial(c) == CHOOSE id \in Undialed(c) : \A other \in Undialed(c) : id <= other

\* A dialed connection registered in the pool at time t.
Register(s, t) ==
    LET id == NextDial(s.pcs)
    IN  PoolState(
          [s.pool EXCEPT !.conns = Append(@, id)],
          [s.pcs EXCEPT ![id] = [conn |-> "open", lastUsed |-> t, healthy |-> TRUE]])

\* A variant of Get's scan that passes over the connections it does not
\* return and leaves them in conns.
RECURSIVE GetScanKeeps(_, _, _)
GetScanKeeps(s, i, t) ==
    IF i < 0
      THEN [s |-> s, found |-> 0]
      ELSE LET id == s.pool.conns[i + 1]
           IN  IF s.pcs[id].healthy /\ t - s.pcs[id].lastUsed < s.pool.idleTimeout
                 THEN [ s |-> PoolState(s.pool, [s.pcs EXCEPT ![id].lastUsed = t]),
                        found |-> id ]
                 ELSE GetScanKeeps(s, i - 1, t)

\* Get's scan from the newest connection to the oldest: the first healthy
\* one used less than idleTimeout ago is stamped and returned (found), the
\* others are removed on the way.
RECURSIVE GetScan(_, _, _)
GetScan(s, i, t) ==
    IF i < 0
      THEN [s |-> s, found |-> 0]
      ELSE LET id == s.pool.conns[i + 1]
           IN  IF s.pcs[id].healthy /\ t - s.pcs[id].lastUsed < s.pool.idleTimeout
                 THEN [ s |-> PoolState(s.pool, [s.pcs EXCEPT ![id].lastUsed = t]),
                        found |-> id ]
                 ELSE GetScan(removeConn(s, i), i - 1, t)

\* Get under the mutex, at time t; dialOk says whether a dial would succeed.
\* conn is the pooledConn returned, 0 with an error.
Get(s, t, dialOk) ==
    LET scan == GetScan(s, Len(s.pool.conns) - 1, t)
    IN  IF scan.found # 0
          THEN [s |-> scan.s, conn |-> scan.found, err |-> "nil", dialed |-> 0]
          ELSE IF Len(scan.s.pool.conns) < scan.s.pool.maxConnections
                 THEN IF dialOk
                        THEN [ s |-> Register(scan.s, t),
                               conn |-> NextDial(scan.s.pcs),
                               err |-> "nil", dialed |-> 1 ]
                        ELSE [ s |-> scan.s, conn |-> 0,
                               err |-> "failed to dial", dialed |-> 0 ]
                 ELSE [ s |-> scan.s, conn |-> 0,
                        err |-> "exhausted", dialed |-> 0 ]

\* checkConnHealth: healthy follows the connection's context.
checkConnHealth(c, id) == [c EXCEPT ![id].healthy = (c[id].conn = "open")]

\* checkHealth's first loop: remove the connections idle for more than
\* idleTimeout and the ones whose context has an error.
RECURSIVE Purge(_, _, _)
Purge(s, i, t) ==
    IF i < 0
      THEN s
      ELSE LET id == s.pool.conns[i + 1]
           IN  IF t - s.pcs[id].lastUsed > s.pool.idleTimeout
                 THEN Purge(removeConn(s, i), i - 1, t)
                 ELSE LET s1 == PoolState(s.pool, checkConnHealth(s.pcs, id))
                      IN  IF ~s1.pcs[id].healthy
                            THEN Purge(removeConn(s1, i), i - 1, t)
                            ELSE Purge(s1, i - 1, t)

\* checkHealth's second loop: dial while conns is shorter than
\* minConnections; okDials dials succeed before the dialer fails.
RECURSIVE TopUp(_, _, _)
TopUp(s, t, okDials) ==
    IF Len(s.pool.conns) < s.pool.minConnections
      THEN IF okDials > 0
             THEN TopUp(Register(s, t), t, okDials - 1)
             ELSE [s |-> s, dialFailed |-> TRUE]
      ELSE [s |-> s, dialFailed |-> FALSE]

\* checkHealth with its two loops in the other order.
checkHealthTopUpFirst(s, t, okDials) ==
    LET r == TopUp(s, t, okDials)
    IN  [s |-> Purge(r.s, Len(r.s.pool.conns) - 1, t), dialFailed |-> r.dialFailed]

\* checkHealth under the mutex.
checkHealth(s, t, okDials) == TopUp(Purge(s, Len(s.pool.conns) - 1, t), t, okDials)

\* cleanupIdle under the mutex: from the newest to the oldest, stop at
\* minConnections, remove what has been idle for more than idleTimeout.
RECURSIVE cleanupIdle(_, _, _)
cleanupIdle(s, i, t) ==
    IF i < 0 \/ Len(s.pool.conns) <= s.pool.minConnections
      THEN s
      ELSE LET id == s.pool.conns[i + 1]
           IN  IF t - s.pcs[id].lastUsed > s.pool.idleTimeout
                 THEN cleanupIdle(removeConn(s, i), i - 1, t)
                 ELSE cleanupIdle(s, i - 1, t)

\* The places of the pooledConn id in conns.
PlacesOf(p, id) == { i \in 1..Len(p.conns) : p.conns[i] = id }

\* Release(pc, healthy), its first two statements, at time t: healthy and
\* lastUsed are stamped, without the mutex.
ReleaseStamp(s, id, healthy, t) ==
    IF PlacesOf(s.pool, id) = {}
      THEN PoolState(s.pool, Forget(s.pcs, id))
      ELSE PoolState(s.pool,
                     [s.pcs EXCEPT ![id].healthy = healthy, ![id].lastUsed = t])

\* Release(pc, false), its CloseWithError, still without the mutex.
ReleaseClose(s, id) ==
    IF PlacesOf(s.pool, id) = {}
      THEN PoolState(s.pool, Forget(s.pcs, id))
      ELSE PoolState(s.pool, CloseConn(s.pcs, id))

\* A variant of the loop of Release under the mutex that cuts the newest
\* connection out of conns.
ReleaseRemoveNewest(s, id) ==
    LET at1 == PlacesOf(s.pool, id)
    IN  IF at1 = {}
          THEN s
          ELSE removeConn(s, Len(s.pool.conns) - 1)

\* Release(pc, false), its loop under the mutex: the first place of conns
\* that holds pc is removed.
ReleaseRemove(s, id) ==
    LET at1 == PlacesOf(s.pool, id)
    IN  IF at1 = {}
          THEN s
          ELSE removeConn(s, (CHOOSE i \in at1 : \A j \in at1 : i <= j) - 1)

\* Release(pc, healthy) at time t with nothing running in between: stamp
\* healthy and lastUsed; an unhealthy connection is closed and, when conns
\* still lists it, removed.
Release(s, id, healthy, t) ==
    IF healthy
      THEN ReleaseStamp(s, id, healthy, t)
      ELSE ReleaseRemove(ReleaseClose(ReleaseStamp(s, id, healthy, t), id), id)

\* Close under the mutex: close every pooled connection and empty conns.
RECURSIVE CloseAll(_, _)
CloseAll(c, ids) ==
    IF ids = << >>
      THEN c
      ELSE CloseAll(Forget(CloseConn(c, Head(ids)), Head(ids)), Tail(ids))

CloseDrain(s) ==
    PoolState([s.pool EXCEPT !.conns = << >>], CloseAll(s.pcs, s.pool.conns))

\* The configurations the model builds a pool from: MinConnections below,
\* at and above MaxConnections.
PoolConfigs ==
    { [MinConnections |-> 0, MaxConnections |-> 2, IdleTimeout |-> 1],
      [MinConnections |-> 2, MaxConnections |-> 2, IdleTimeout |-> 1],
      [MinConnections |-> 2, MaxConnections |-> 1, IdleTimeout |-> 1] }

PoolReturned(op, conn, err, dialed, dialFailed) ==
    [op |-> op, conn |-> conn, err |-> err, dialed |-> dialed, dialFailed |-> dialFailed]

\* poolRet after a step in which no call returns.
NoReturn == PoolReturned("none", 0, "nil", 0, FALSE)

\* The connections conns lists.
Pooled(p) == { p.conns[i] : i \in 1..Len(p.conns) }

PoolInitWith(cfgs) ==
    /\ pool \in { NewConnPool(cfg) : cfg \in cfgs }
    /\ pcs = [id \in ConnIds |-> [conn |-> "none", lastUsed |-> 0, healthy |-> FALSE]]
    /\ poolPc = [ get |-> 0, health |-> FALSE, idle |-> FALSE, close |-> FALSE,
                  closing |-> [id \in ConnIds |-> 0],
                  removing |-> [id \in ConnIds |-> 0] ]
    /\ leased = [id \in ConnIds |-> 0]
    /\ poolRet = NoReturn
    /\ closeReturned = FALSE

PoolInit == PoolInitWith(PoolConfigs)

\* The ConnPool where the specification of another component leaves it.
PoolAside ==
    PoolInitWith({ [MinConnections |-> 0, MaxConnections |-> 0, IdleTimeout |-> 0] })

Here == PoolState(pool, pcs)

RECURSIVE SumOver(_, _)
SumOver(f, ids) ==
    IF ids = {}
      THEN 0
      ELSE LET id == CHOOSE x \in ids : TRUE
           IN  f[id] + SumOver(f, ids \ {id})

\* A caller whose connection has left conns can change nothing of the pool
\* any more: its connection is closed and no method reads the pooledConn
\* again.  The model lets such a caller go.
StillPooled(f, p) == [id \in ConnIds |-> IF id \in Pooled(p) THEN f[id] ELSE 0]

PoolCallers(pc, p) ==
    [pc EXCEPT !.closing = StillPooled(@, p), !.removing = StillPooled(@, p)]

\* The callers that are inside Get, hold a connection or are inside Release.
InFlight ==
    poolPc.get + SumOver(leased, ConnIds) + SumOver(poolPc.closing, ConnIds)
        + SumOver(poolPc.removing, ConnIds)

\* Get, before the mutex: a closed pool is refused.
PoolGetCheck ==
    /\ InFlight < NumGetters
    /\ IF pool.closed
         THEN /\ poolRet' = PoolReturned("Get", 0, "closed", 0, FALSE)
              /\ UNCHANGED poolPc
         ELSE /\ poolPc' = [poolPc EXCEPT !.get = @ + 1]
              /\ poolRet' = NoReturn
    /\ UNCHANGED <<now, pool, pcs, leased, closeReturned, poolOthers>>

\* Get, under the mutex.
PoolGet(dialOk) ==
    /\ poolPc.get > 0
    /\ dialOk => Undialed(pcs) # {}
    /\ LET r == Get(Here, now, dialOk)
       IN  /\ pool' = r.s.pool
           /\ pcs' = r.s.pcs
           /\ leased' = StillPooled(IF r.conn = 0
                                       THEN leased
                                       ELSE [leased EXCEPT ![r.conn] = @ + 1],
                                     r.s.pool)
           /\ poolRet' = PoolReturned("Get", r.conn, r.err, r.dialed, r.err = "failed to dial")
    /\ poolPc' = PoolCallers([poolPc EXCEPT !.get = @ - 1], pool')
    /\ UNCHANGED <<now, closeReturned, poolOthers>>

\* A caller is done with the connection Get returned and does not release
\* it, as RoundTrip does after a response.
PoolDone(id) ==
    /\ leased[id] > 0
    /\ leased' = [leased EXCEPT ![id] = @ - 1]
    /\ poolRet' = NoReturn
    /\ UNCHANGED <<now, pool, pcs, poolPc, closeReturned, poolOthers>>

\* Release(pc, healthy) of a connection Get returned: the stamps.  With
\* healthy the call returns.
PoolReleaseStamp(id, healthy) ==
    /\ leased[id] > 0
    /\ LET s == ReleaseStamp(Here, id, healthy, now)
       IN  pool' = s.pool /\ pcs' = s.pcs
    /\ leased' = [leased EXCEPT ![id] = @ - 1]
    /\ IF healthy
         THEN /\ poolRet' = PoolReturned("Release", id, "nil", 0, FALSE)
              /\ UNCHANGED poolPc
         ELSE /\ poolPc' = [poolPc EXCEPT !.closing[id] = @ + 1]
              /\ poolRet' = NoReturn
    /\ UNCHANGED <<now, closeReturned, poolOthers>>

\* Release(pc, false): CloseWithError.
PoolReleaseClose(id) ==
    /\ poolPc.closing[id] > 0
    /\ LET s == ReleaseClose(Here, id)
       IN  pool' = s.pool /\ pcs' = s.pcs
    /\ poolPc' = [poolPc EXCEPT !.closing[id] = @ - 1, !.removing[id] = @ + 1]
    /\ poolRet' = NoReturn
    /\ UNCHANGED <<now, leased, closeReturned, poolOthers>>

\* Release(pc, false): under the mutex, the removal, and the return.
PoolReleaseRemove(id) ==
    /\ poolPc.removing[id] > 0
    /\ LET s == ReleaseRemove(Here, id)
       IN  pool' = s.pool /\ pcs' = s.pcs
    /\ poolPc' = PoolCallers([poolPc EXCEPT !.removing[id] = @ - 1], pool')
    /\ leased' = StillPooled(leased, pool')
    /\ poolRet' = PoolReturned("Release", id, "nil", 0, FALSE)
    /\ UNCHANGED <<now, closeReturned, poolOthers>>

\* Close: set the closed flag.
PoolCloseStart ==
    /\ ~poolPc.close
    /\ pool' = [pool EXCEPT !.closed = TRUE]
    /\ poolPc' = [poolPc EXCEPT !.close = TRUE]
    /\ poolRet' = NoReturn
    /\ UNCHANGED <<now, pcs, leased, closeReturned, poolOthers>>

\* Close: under the mutex, close and drop every connection, and return.
PoolCloseDrain ==
    /\ poolPc.close
    /\ LET s == CloseDrain(Here)
       IN  pool' = s.pool /\ pcs' = s.pcs
    /\ poolPc' = PoolCallers([poolPc EXCEPT !.close = FALSE], pool')
    /\ leased' = StillPooled(leased, pool')
    /\ poolRet' = PoolReturned("Close", 0, "nil", 0, FALSE)
    /\ closeReturned' = TRUE
    /\ UNCHANGED <<now, poolOthers>>

\* healthCheckLoop at a tick: a closed pool ends the loop, otherwise
\* checkHealth is called.
PoolHealthTick ==
    /\ ~poolPc.health
    /\ ~pool.closed
    /\ poolPc' = [poolPc EXCEPT !.health = TRUE]
    /\ poolRet' = NoReturn
    /\ UNCHANGED <<now, pool, pcs, leased, closeReturned, poolOthers>>

\* checkHealth.
PoolCheckHealth(okDials) ==
    /\ poolPc.health
    /\ okDials <= Cardinality(Undialed(pcs))
    /\ LET r == checkHealth(Here, now, okDials)
       IN  /\ pool' = r.s.pool
           /\ pcs' = r.s.pcs
           /\ poolRet' = PoolReturned("checkHealth", 0, "nil",
                                      Cardinality(Undialed(pcs)) - Cardinality(Undialed(r.s.pcs)),
                                      r.dialFailed)
    /\ poolPc' = PoolCallers([poolPc EXCEPT !.health = FALSE], pool')
    /\ leased' = StillPooled(leased, pool')
    /\ UNCHANGED <<now, closeReturned, poolOthers>>

\* idleCleanupLoop at a tick.
PoolIdleTick ==
    /\ ~poolPc.idle
    /\ ~pool.closed
    /\ poolPc' = [poolPc EXCEPT !.idle = TRUE]
    /\ poolRet' = NoReturn
    /\ UNCHANGED <<now, pool, pcs, leased, closeReturned, poolOthers>>

\* cleanupIdle.
PoolCleanupIdle ==
    /\ poolPc.idle
    /\ LET s == cleanupIdle(Here, Len(pool.conns) - 1, now)
       IN  pool' = s.pool /\ pcs' = s.pcs
    /\ poolRet' = PoolReturned("cleanupIdle", 0, "nil", 0, FALSE)
    /\ poolPc' = PoolCallers([poolPc EXCEPT !.idle = FALSE], pool')
    /\ leased' = StillPooled(leased, pool')
    /\ UNCHANGED <<now, closeReturned, poolOthers>>

\* The peer or the network ends a QUIC connection.
PoolConnDies(id) ==
    /\ pcs[id].conn = "open"
    /\ pcs' = [pcs EXCEPT ![id].conn = "dead"]
    /\ poolRet' = NoReturn
    /\ UNCHANGED <<now, pool, poolPc, leased, closeReturned, poolOthers>>

PoolTick ==
    /\ now < PoolMaxTime
    /\ Tick
    /\ poolRet' = NoReturn
    /\ UNCHANGED <<pool, pcs, poolPc, leased, closeReturned, poolOthers>>

PoolNext ==
    \/ PoolGetCheck
    \/ \E dialOk \in BOOLEAN : PoolGet(dialOk)
    \/ \E id \in ConnIds : PoolDone(id)
    \/ \E id \in ConnIds, healthy \in BOOLEAN : PoolReleaseStamp(id, healthy)
    \/ \E id \in ConnIds : PoolReleaseClose(id)
    \/ \E id \in ConnIds : PoolReleaseRemove(id)
    \/ PoolCloseStart
    \/ PoolCloseDrain
    \/ PoolHealthTick
    \/ \E okDials \in 0..MaxDials : PoolCheckHealth(okDials)
    \/ PoolIdleTick
    \/ PoolCleanupIdle
    \/ \E id \in ConnIds : PoolConnDies(id)
    \/ PoolTick

\* ----------------------------------------------------- upstreamSelector
\* An index is a position of s.us, from 0.  cachedOrder is a slice whose
\* length and capacity are equal, so a sequence stands for it; every cached
\* selection has at least one entry, and << >> stands for the nil slice.

Upstreams == 0..(NumUpstreams - 1)
SelCallers == 1..NumSelCallers

newUpstreamSelector == [cachedOrder |-> << >>, lastUpdate |-> 0, panicked |-> FALSE]

\* calculateScores: latency, error rate and noise give every upstream a
\* positive score; the model draws each from a small range.
calculateScores == [Upstreams -> 1..MaxScore]

\* The indices counted from 1.
NaturalOrderFromOne == [i \in 1..NumUpstreams |-> i]

\* len(s.us) <= count: every index in natural order.
NaturalOrder == [i \in 1..NumUpstreams |-> i - 1]

\* The cache test both paths make.
CacheFresh(s, t) == s.cachedOrder # << >> /\ t - s.lastUpdate < weightCacheTTL

\* order := make([]int, count); copy(order, s.cachedOrder[:count]).  The
\* slice expression panics when count is beyond the capacity of cachedOrder.
CopyCached(s, count) ==
    IF count > Len(s.cachedOrder)
      THEN [panicked |-> TRUE, order |-> << >>]
      ELSE [panicked |-> FALSE, order |-> SubSeq(s.cachedOrder, 1, count)]

\* The inner loop over scores for one r, given as r2 = 2 r: the first index
\* not yet used whose cumulative score reaches r, or -1 when the loop ends
\* without one.
RECURSIVE Walk(_, _, _, _, _)
Walk(scores, used, r2, i, cumulative) ==
    IF i >= NumUpstreams
      THEN -1
      ELSE IF i \in used
        THEN Walk(scores, used, r2, i + 1, cumulative)
        ELSE IF r2 <= 2 * (cumulative + scores[i])
          THEN i
          ELSE Walk(scores, used, r2, i + 1, cumulative + scores[i])

\* The outer loop: every selection it can end with, r ranging over the
\* multiples of 1/2 in [0, totalWeight).  An r that selects nothing makes the
\* loop draw again.
RECURSIVE Selections(_, _, _, _, _)
Selections(scores, selected, used, totalWeight, count) ==
    IF Len(selected) >= count
      THEN { selected }
      ELSE UNION { Selections(scores, Append(selected, idx), used \cup {idx},
                              totalWeight - scores[idx], count) :
                     idx \in { Walk(scores, used, r2, 0, 0) :
                                r2 \in 0..(2 * totalWeight - 1) } \ {-1} }

RECURSIVE SumScores(_, _)
SumScores(scores, i) ==
    IF i >= NumUpstreams THEN 0 ELSE scores[i] + SumScores(scores, i + 1)

\* For every count below len(s.us), the selections the computation can end
\* with, over all the scores calculateScores can give.
Computed ==
    [ count \in 1..(NumUpstreams - 1) |->
        UNION { Selections(scores, << >>, {}, SumScores(scores, 0), count) :
                scores \in calculateScores } ]

SelReturned(count, order, panicked) ==
    [op |-> "selectUpstreams", count |-> count, order |-> order, panicked |-> panicked]

SelInit ==
    /\ sel = newUpstreamSelector
    /\ selPc = [p \in SelCallers |-> 0]
    /\ selRet = [op |-> "none", count |-> 0, order |-> << >>, panicked |-> FALSE]

\* selectUpstreams(count) with len(s.us) <= count.
SelSelectAll(p, count) ==
    /\ ~sel.panicked
    /\ selPc[p] = 0
    /\ NumUpstreams <= count
    /\ selRet' = SelReturned(count, NaturalOrder, FALSE)
    /\ UNCHANGED <<now, sel, selPc, selOthers>>

\* selectUpstreams(count) up to s.mu.RUnlock(): answer from the cache, or
\* go on to the write lock.
SelReadLocked(p, count) ==
    /\ ~sel.panicked
    /\ selPc[p] = 0
    /\ NumUpstreams > count
    /\ IF CacheFresh(sel, now)
         THEN LET c == CopyCached(sel, count)
              IN  /\ selRet' = SelReturned(count, c.order, c.panicked)
                  /\ sel' = [sel EXCEPT !.panicked = c.panicked]
                  /\ UNCHANGED selPc
         ELSE /\ selPc' = [selPc EXCEPT ![p] = count]
              /\ UNCHANGED <<sel, selRet>>
    /\ UNCHANGED <<now, selOthers>>

\* selectUpstreams(count) under s.mu.Lock(): test the cache again, and
\* compute and cache a selection when it is still stale.
SelWriteLocked(p) ==
    /\ ~sel.panicked
    /\ selPc[p] # 0
    /\ selPc' = [selPc EXCEPT ![p] = 0]
    /\ IF CacheFresh(sel, now)
         THEN LET c == CopyCached(sel, selPc[p])
              IN  /\ selRet' = SelReturned(selPc[p], c.order, c.panicked)
                  /\ sel' = [sel EXCEPT !.panicked = c.panicked]
         ELSE \E selected \in Computed[selPc[p]] :
                /\ sel' = [sel EXCEPT !.cachedOrder = selected,
                                      !.lastUpdate = now]
                /\ selRet' = SelReturned(selPc[p], selected, FALSE)
    /\ UNCHANGED <<now, selOthers>>

SelTick ==
    /\ now < SelMaxTime
    /\ now' = now + 1
    /\ UNCHANGED <<selVars, selOthers>>

SelNext ==
    \/ \E p \in SelCallers, count \in 1..SelMaxCount : SelSelectAll(p, count)
    \/ \E p \in SelCallers, count \in 1..SelMaxCount : SelReadLocked(p, count)
    \/ \E p \in SelCallers : SelWriteLocked(p)
    \/ SelTick

\* ---------------------------------------------------- ResilientQuicConn
\* A message or a buffer is a sequence of bytes; position i of the Go slice
\* is element i + 1.  << >> stands for a nil *[]byte.

Bytes == 0..MaxByte
Messages == [1..MsgLen -> Bytes]

\* binary.BigEndian.Uint16 and PutUint16 on the slice b[off:].
Uint16(b, off) == b[off + 1] * 256 + b[off + 2]
PutUint16(b, off, v) ==
    [b EXCEPT ![off + 1] = (v \div 256) % 256, ![off + 2] = v % 256]

\* copyMsgWithLenHdr: a copy of the message behind its 16-bit length; a
\* message longer than 65535 bytes is refused.
copyMsgWithLenHdr(m) ==
    IF Len(m) > 65535
      THEN [payload |-> << >>, err |-> "too large"]
      ELSE [payload |-> PutUint16(<<0, 0>>, 0, Len(m)) \o m, err |-> "nil"]

\* dnsutils.ReadRawMsgFromTCP on the bytes the peer has sent: the message
\* behind a 16-bit length.
ReadRawMsgFromTCP(b) ==
    IF Len(b) < 2 \/ Len(b) < 2 + Uint16(b, 0)
      THEN [r |-> << >>, err |-> "read"]
      ELSE [r |-> SubSeq(b, 3, 2 + Uint16(b, 0)), err |-> "nil"]

\* NewResilientQuicConn with a zero ResilientConnConfig but for the breaker's
\* settings.
NewResilientQuicConn ==
    [ connDone |-> FALSE,
      timeout  |-> NewAdaptiveTimeout(ZeroTimeoutConfig),
      breaker  |-> NewCircuitBreaker([MaxFailures |-> CfgMaxFailures,
                                      ResetTimeout |-> CfgResetTimeout,
                                      HalfOpenAttempts |-> 3]) ]

\* A stream as conn.OpenStream returns it.
OpenStream ==
    [ deadline    |-> 0,
      wire        |-> << >>,    \* what the exchanger has written
      sendClosed  |-> FALSE,    \* stream.Close
      reply       |-> << >>,    \* what the peer has written
      cancelRead  |-> "none",
      cancelWrite |-> "none" ]

\* CancelRead and CancelWrite with _DOQ_REQUEST_CANCELLED.
CancelStream(st) ==
    [st EXCEPT !.cancelRead = "DOQ_REQUEST_CANCELLED",
               !.cancelWrite = "DOQ_REQUEST_CANCELLED"]

NoExchange ==
    [ caller    |-> "idle",
      worker    |-> "none",
      q         |-> << >>,
      startTime |-> 0,
      orgQid    |-> 0,
      res       |-> [resp |-> << >>, err |-> "nil"] ]

DoqReturned(op, q, resp, err, closed) ==
    [op |-> op, q |-> q, resp |-> resp, err |-> err, closed |-> closed]

\* The deferred function of ExchangeReserved: the values it can leave in the
\* AdaptiveTimeout.
RecordExchange(a, err, duration) ==
    IF err # "nil" THEN RecordTimeout(a) ELSE RecordSuccess(a, duration)

\* exchangeOnStream from stream.Close on, r and err being what
\* ReadRawMsgFromTCP returned.  resp is the named result: nothing assigns it
\* before the return statement, so it is nil where the ID is written back.
ReadAndRestore(r, err, orgQid) ==
    LET resp == << >>
    IN  [ resp |-> r,
          err |-> err,
          written |-> IF resp # << >> THEN PutUint16(resp, 0, orgQid) ELSE resp ]

DoqInit ==
    /\ doq = NewResilientQuicConn
    /\ ex = NoExchange
    /\ stream = OpenStream
    /\ doqRet = DoqReturned("none", << >>, << >>, "nil", FALSE)

\* ReserveNewQuery.
DoqReserveNewQuery(openOk) ==
    /\ ex.caller = "idle"
    /\ doq.timeout.samples < DoqMaxCount
    /\ doq.timeout.consecutiveTimeouts < DoqMaxCount
    /\ IF doq.connDone
         THEN /\ doqRet' = DoqReturned("ReserveNewQuery", << >>, << >>, "nil", TRUE)
              /\ UNCHANGED <<ex, stream>>
         ELSE IF doq.breaker.state = StateOpen \/ ~openOk
           THEN /\ doqRet' = DoqReturned("ReserveNewQuery", << >>, << >>, "nil", FALSE)
                /\ UNCHANGED <<ex, stream>>
           ELSE /\ ex' = [NoExchange EXCEPT !.caller = "reserved"]
                /\ stream' = OpenStream
                /\ doqRet' = DoqReturned("ReserveNewQuery", << >>, << >>, "nil", FALSE)
    /\ UNCHANGED <<now, doq, doqOthers>>

\* WithdrawReserved.
DoqWithdrawReserved ==
    /\ ex.caller = "reserved"
    /\ stream' = CancelStream(stream)
    /\ ex' = [ex EXCEPT !.caller = "idle"]
    /\ doqRet' = DoqReturned("WithdrawReserved", << >>, << >>, "nil", FALSE)
    /\ UNCHANGED <<now, doq, doqOthers>>

\* ExchangeReserved up to its select: set the deadline and start the
\* goroutine that runs exchangeOnStream.
DoqExchangeReserved(q) ==
    /\ ex.caller = "reserved"
    /\ ex' = [ex EXCEPT !.caller = "waiting", !.worker = "start",
                        !.q = q, !.startTime = now]
    /\ stream' = [stream EXCEPT !.deadline = now + GetTimeout(doq.timeout)]
    /\ UNCHANGED <<now, doq, doqRet, doqOthers>>

\* exchangeOnStream up to stream.Close: frame the query, zero its ID, write.
DoqWrite(writeOk) ==
    /\ ex.worker = "start"
    /\ LET c == copyMsgWithLenHdr(ex.q)
           orgQid == Uint16(c.payload, 2)
           payload == PutUint16(c.payload, 2, 0)
       IN  IF c.err # "nil"
             THEN /\ stream' = CancelStream(stream)
                  /\ ex' = [ex EXCEPT !.worker = "done",
                                      !.res = [resp |-> << >>, err |-> c.err]]
             ELSE IF ~writeOk
               THEN /\ stream' = CancelStream(stream)
                    /\ ex' = [ex EXCEPT !.worker = "done", !.orgQid = orgQid,
                                        !.res = [resp |-> << >>, err |-> "write"]]
               ELSE /\ stream' = [stream EXCEPT !.wire = payload,
                                                !.sendClosed = TRUE]
                    /\ ex' = [ex EXCEPT !.worker = "written", !.orgQid = orgQid]
    /\ UNCHANGED <<now, doq, doqRet, doqOthers>>

\* The peer answers the query it has read from the stream with a framed
\* message that carries the query's ID as it was on the wire.
DoqPeerReplies(m) ==
    /\ stream.sendClosed
    /\ stream.reply = << >>
    /\ Uint16(m, 0) = Uint16(stream.wire, 2)
    /\ stream.cancelRead = "none"
    /\ stream' = [stream EXCEPT !.reply = copyMsgWithLenHdr(m).payload]
    /\ UNCHANGED <<now, doq, ex, doqRet, doqOthers>>

\* exchangeOnStream from ReadRawMsgFromTCP on, and the send on rc.  The read
\* fails when the stream ends or its deadline passes before a whole message
\* has come.
DoqRead(readOk) ==
    /\ ex.worker = "written"
    /\ readOk => stream.reply # << >>
    /\ LET got == IF readOk THEN ReadRawMsgFromTCP(stream.reply)
                            ELSE [r |-> << >>, err |-> "read"]
           out == ReadAndRestore(got.r, got.err, ex.orgQid)
       IN  ex' = [ex EXCEPT !.worker = "done",
                            !.res = [resp |-> out.resp, err |-> out.err]]
    /\ stream' = [stream EXCEPT !.cancelRead = "DOQ_NO_ERROR"]
    /\ UNCHANGED <<now, doq, doqRet, doqOthers>>

\* ExchangeReserved receives from rc and returns; its deferred function
\* records the outcome.
DoqReturn ==
    /\ ex.caller = "waiting"
    /\ ex.worker = "done"
    /\ \E a \in RecordExchange(doq.timeout, ex.res.err, now - ex.startTime) :
         doq' = [doq EXCEPT !.timeout = a]
    /\ ex' = [ex EXCEPT !.caller = "idle"]
    /\ doqRet' = DoqReturned("ExchangeReserved", ex.q, ex.res.resp, ex.res.err, FALSE)
    /\ UNCHANGED <<now, stream, doqOthers>>

\* ExchangeReserved finds ctx done and returns ctx.Err(); its deferred
\* function records a timeout.
DoqCancelled ==
    /\ ex.caller = "waiting"
    /\ \E a \in RecordExchange(doq.timeout, "context", now - ex.startTime) :
         doq' = [doq EXCEPT !.timeout = a]
    /\ ex' = [ex EXCEPT !.caller = "idle"]
    /\ doqRet' = DoqReturned("ExchangeReserved", ex.q, << >>, "context", FALSE)
    /\ UNCHANGED <<now, stream, doqOthers>>

\* The QUIC connection ends: conn.Context() is done.
DoqConnDone ==
    /\ ~doq.connDone
    /\ doq' = [doq EXCEPT !.connDone = TRUE]
    /\ UNCHANGED <<now, ex, stream, doqRet, doqOthers>>

DoqTick ==
    /\ now < DoqMaxTime
    /\ Tick
    /\ UNCHANGED <<doqVars, doqOthers>>

DoqNext ==
    \/ \E openOk \in BOOLEAN : DoqReserveNewQuery(openOk)
    \/ DoqWithdrawReserved
    \/ \E q \in Messages : DoqExchangeReserved(q)
    \/ \E writeOk \in BOOLEAN : DoqWrite(writeOk)
    \/ \E m \in Messages : DoqPeerReplies(m)
    \/ \E readOk \in BOOLEAN : DoqRead(readOk)
    \/ DoqReturn
    \/ DoqCancelled
    \/ DoqConnDone
    \/ DoqTick

\* --------------------------------------------------- TestSelectUpstreams
\* The test stores EMA latencies 50, 100, 200, ... ms in wrappers that have
\* counted no query and no error, makes one selector of them and calls
\* selectUpstreams(1) in a loop, counting the index each call returns.

emaLatency == [i \in Upstreams |-> 50 * 2^i]

\* calculateScores for these wrappers: (1 / latency) * (1 + noise) with the
\* noise at -2/16, -1/16, 0 and 1/16, in units of 1 / (16 * the largest
\* latency).
LoopScores ==
    { [i \in Upstreams |->
         (16 + noise[i]) * (emaLatency[NumUpstreams - 1] \div emaLatency[i])] :
        noise \in [Upstreams -> -2..1] }

\* The selections selectUpstreams(1) can compute for these wrappers.
LoopComputed ==
    UNION { Selections(scores, << >>, {}, SumScores(scores, 0), 1) :
            scores \in LoopScores }

LoopInit ==
    loop = [i |-> 0, selectionCount |-> [idx \in Upstreams |-> 0]]

\* One iteration: selectUpstreams(1), from the read lock to its return, and
\* selectionCount[selected[0]]++.
LoopSelect ==
    /\ loop.i < Iterations
    /\ NumUpstreams > 1
    /\ \E order \in IF CacheFresh(sel, now)
                      THEN { CopyCached(sel, 1).order }
                      ELSE LoopComputed :
         /\ sel' = IF CacheFresh(sel, now)
                     THEN sel
                     ELSE [sel EXCEPT !.cachedOrder = order, !.lastUpdate = now]
         /\ selRet' = SelReturned(1, order, FALSE)
         /\ loop' = [ i |-> loop.i + 1,
                      selectionCount |->
                        [loop.selectionCount EXCEPT ![order[1]] = @ + 1] ]
    /\ UNCHANGED <<now, selPc, loopOthers>>

LoopNext ==
    \/ LoopSelect
    \/ SelTick

\* ------------------------------------------------- adaptive_doh.Upstream
\* Latencies are whole milliseconds in units of 20 ms; Preference is kept in
\* tenths, and the float comparisons of the code are made on the fractions
\* themselves, by cross-multiplication.

protocolDoH == "doh"
protocolDoH3 == "doh3"
Protocols == {protocolDoH, protocolDoH3}

\* Two goroutines call ExchangeContext, each one call after the other.
AuCallers == {1, 2}

\* What an inner exchanger can return: a response after some latency, or one
\* of two errors, the caller's cancellation among them.
Latencies == {2, 5}
Errors == {"context canceled", "connection refused"}
InnerResults ==
    { [resp |-> "response", err |-> "nil", latency |-> l] : l \in Latencies }
      \cup { [resp |-> "nil", err |-> e, latency |-> 0] : e \in Errors }

\* The zero protocolStats.
ZeroStats ==
    [ totalRequests |-> 0, successRequests |-> 0, failedRequests |-> 0,
      totalLatency |-> 0, preferredCount |-> 0, fallbackCount |-> 0 ]

\* NewUpstream: the defaults for the settings out of range, current and
\* preferred doh, the trial not done.
NewUpstream(opt) ==
    [ current      |-> protocolDoH,
      preferred    |-> protocolDoH,
      stats        |-> [pr \in Protocols |-> ZeroStats],
      preference10 |-> IF opt.Preference10 <= 0 \/ opt.Preference10 > 10
                         THEN defaultPreferenceRatio10 ELSE opt.Preference10,
      trialCount   |-> IF opt.TrialCount <= 0 THEN defaultTrialCount
                                              ELSE opt.TrialCount,
      trialDone    |-> FALSE ]

getOtherProtocol(pr) == IF pr = protocolDoH THEN protocolDoH3 ELSE protocolDoH

\* selectProtocol once the trial is done.
SteadySelect(u) ==
    LET doHStats == u.stats[protocolDoH]
        doH3Stats == u.stats[protocolDoH3]
        doH3Available == /\ doH3Stats.totalRequests > 0
                         /\ 2 * doH3Stats.failedRequests < doH3Stats.totalRequests
        total == doH3Stats.preferredCount + doHStats.fallbackCount
    IN  IF u.stats[u.preferred].totalRequests = 0
          THEN u.preferred
          ELSE IF /\ u.preferred = protocolDoH3
                  /\ doH3Available
                  /\ total > 0
                  /\ 10 * doH3Stats.preferredCount >= u.preference10 * total
                 THEN protocolDoH3
                 ELSE u.preferred

\* The counters ExchangeContext adds to once the inner exchange has returned.
Count(u, pr, res) ==
    IF res.err # "nil"
      THEN [u EXCEPT !.stats[pr].totalRequests = @ + 1,
                     !.stats[pr].failedRequests = @ + 1]
      ELSE [u EXCEPT !.stats[pr].totalRequests = @ + 1,
                     !.stats[pr].successRequests = @ + 1,
                     !.stats[pr].totalLatency = @ + res.latency]

\* recordFailure comparing the rates as they were before the failure was
\* counted.
ShouldSwitchBeforeCount(u, pr) ==
    LET stats == u.stats[getOtherProtocol(pr)]
        own == u.stats[pr]
    IN  /\ pr = u.preferred
        /\ stats.totalRequests > 0
        /\ own.totalRequests > 1
        /\ stats.successRequests * (own.totalRequests - 1)
             > own.successRequests * stats.totalRequests

\* recordFailure(p) up to its u.mu.Lock(): whether it goes on to switch.
\* The rates are float quotients; the one of the failed protocol has a total
\* of at least 1, the failure itself.
ShouldSwitch(u, pr) ==
    LET stats == u.stats[getOtherProtocol(pr)]
        own == u.stats[pr]
    IN  /\ pr = u.preferred
        /\ stats.totalRequests > 0
        /\ own.totalRequests > 0
        /\ stats.successRequests * own.totalRequests
             > own.successRequests * stats.totalRequests

\* a / s < (b / t) * preference on floats: 0 / 0 is NaN and compares false,
\* a positive numerator over 0 is +Inf.
AvgLess(a, s, b, t, preference10) ==
    IF s = 0
      THEN FALSE
      ELSE IF t = 0
             THEN b > 0
             ELSE 10 * a * t < preference10 * b * s

\* evaluatePreference without its test of the DoH3 failure rate.
evaluatePreferenceNoFailureRule(u) ==
    LET doHStats == u.stats[protocolDoH]
        doH3Stats == u.stats[protocolDoH3]
        done == [u EXCEPT !.trialDone = TRUE]
    IN  IF doHStats.totalRequests + doH3Stats.totalRequests < u.trialCount
          THEN u
          ELSE IF doH3Stats.totalRequests = 0
            THEN [done EXCEPT !.preferred = protocolDoH]
            ELSE IF doHStats.totalRequests = 0
              THEN [done EXCEPT !.preferred = protocolDoH3]
              ELSE IF AvgLess(doH3Stats.totalLatency, doH3Stats.successRequests,
                              doHStats.totalLatency, doHStats.successRequests,
                              u.preference10)
                THEN [done EXCEPT !.preferred = protocolDoH3]
                ELSE [done EXCEPT !.preferred = protocolDoH]

\* evaluatePreference, under the write lock.
evaluatePreference(u) ==
    LET doHStats == u.stats[protocolDoH]
        doH3Stats == u.stats[protocolDoH3]
        done == [u EXCEPT !.trialDone = TRUE]
    IN  IF doHStats.totalRequests + doH3Stats.totalRequests < u.trialCount
          THEN u
          ELSE IF doH3Stats.totalRequests = 0
            THEN [done EXCEPT !.preferred = protocolDoH]
            ELSE IF 2 * doH3Stats.failedRequests >= doH3Stats.totalRequests
              THEN [done EXCEPT !.preferred = protocolDoH]
              ELSE IF doHStats.totalRequests = 0
                THEN [done EXCEPT !.preferred = protocolDoH3]
                ELSE IF AvgLess(doH3Stats.totalLatency, doH3Stats.successRequests,
                                doHStats.totalLatency, doHStats.successRequests,
                                u.preference10)
                  THEN [done EXCEPT !.preferred = protocolDoH3]
                  ELSE [done EXCEPT !.preferred = protocolDoH]

\* A caller outside ExchangeContext.
\* inner lists the protocols whose exchanger the call has invoked, res is
\* what the latest of them returned.
AuIdle ==
    [ pc |-> "idle", seen |-> protocolDoH, selected |-> protocolDoH,
      inner |-> << >>, res |-> [resp |-> "nil", err |-> "nil", latency |-> 0] ]

\* ExchangeContext returning an error of its own in place of the inner one.
AuReturnedOwnError(p, c, resp, err) ==
    [ op |-> "ExchangeContext", caller |-> p, selected |-> c.selected,
      inner |-> c.inner, innerErr |-> c.res.err, resp |-> resp,
      err |-> IF err = "nil" THEN "nil" ELSE "exchange failed" ]

AuReturned(p, c, resp, err) ==
    [ op |-> "ExchangeContext", caller |-> p, selected |-> c.selected,
      inner |-> c.inner, innerErr |-> c.res.err, resp |-> resp, err |-> err ]

\* The callers that hold u.mu for reading, inside selectProtocol.
AuReaders == { p \in AuCallers : auPc[p].pc \in {"toggle", "reread"} }

\* The calls begun so far.
AuBegun ==
    au.stats[protocolDoH].totalRequests + au.stats[protocolDoH3].totalRequests
      + Cardinality({ p \in AuCallers : auPc[p].pc \in {"toggle", "reread", "inner"} })

AuInit ==
    /\ au = NewUpstream([SampleSize |-> 0, Preference10 |-> 0,
                         TrialCount |-> CfgTrialCount])
    /\ auPc = [p \in AuCallers |-> AuIdle]
    /\ auRet = [ op |-> "none", caller |-> 0, selected |-> protocolDoH,
                 inner |-> << >>, innerErr |-> "nil", resp |-> "nil", err |-> "nil" ]

\* ExchangeContext enters selectProtocol and takes the read lock.  With the
\* trial done it returns from it at once; during the trial it has read
\* u.current.
AuSelect(p) ==
    /\ auPc[p].pc = "idle"
    /\ AuBegun < AuMaxCalls
    /\ IF au.trialDone
         THEN auPc' = [auPc EXCEPT ![p] = [AuIdle EXCEPT !.pc = "inner",
                                                        !.selected = SteadySelect(au)]]
         ELSE auPc' = [auPc EXCEPT ![p] = [AuIdle EXCEPT !.pc = "toggle",
                                                        !.seen = au.current]]
    /\ UNCHANGED <<now, au, auRet, auOthers>>

\* selectProtocol during the trial: assign u.current the protocol other than
\* the one read.
AuToggle(p) ==
    /\ auPc[p].pc = "toggle"
    /\ au' = [au EXCEPT !.current = getOtherProtocol(auPc[p].seen)]
    /\ auPc' = [auPc EXCEPT ![p].pc = "reread"]
    /\ UNCHANGED <<now, auRet, auOthers>>

\* selectProtocol during the trial: return u.current and release the lock.
AuReturnCurrent(p) ==
    /\ auPc[p].pc = "reread"
    /\ auPc' = [auPc EXCEPT ![p].pc = "inner", ![p].selected = au.current]
    /\ UNCHANGED <<now, au, auRet, auOthers>>

\* The inner ExchangeContext of the selected protocol returns res, and
\* ExchangeContext adds to the counters of that protocol.
AuExchanged(p, res) ==
    /\ auPc[p].pc = "inner"
    /\ au' = Count(au, auPc[p].selected, res)
    /\ auPc' = [auPc EXCEPT ![p].pc = "after", ![p].res = res,
                            ![p].inner = Append(@, auPc[p].selected)]
    /\ UNCHANGED <<now, auRet, auOthers>>

\* ExchangeContext after the counters.  A failure goes through recordFailure
\* up to its lock and returns the error unless it is to switch; a success
\* loads trialDone and goes on to evaluatePreference when it is false, and
\* otherwise counts the call as preferred or fallback and returns.
AuAfter(p) ==
    /\ auPc[p].pc = "after"
    /\ LET c == auPc[p]
       IN  IF c.res.err # "nil"
             THEN IF ShouldSwitch(au, c.selected)
                    THEN /\ auPc' = [auPc EXCEPT ![p].pc = "switch"]
                         /\ UNCHANGED <<au, auRet>>
                    ELSE /\ auPc' = [auPc EXCEPT ![p] = AuIdle]
                         /\ auRet' = AuReturned(p, c, "nil", c.res.err)
                         /\ UNCHANGED au
             ELSE IF ~au.trialDone
                    THEN /\ auPc' = [auPc EXCEPT ![p].pc = "evaluate"]
                         /\ UNCHANGED <<au, auRet>>
                    ELSE /\ au' = IF c.selected = au.preferred
                                    THEN [au EXCEPT !.stats[c.selected].preferredCount = @ + 1]
                                    ELSE [au EXCEPT !.stats[c.selected].fallbackCount = @ + 1]
                         /\ auPc' = [auPc EXCEPT ![p] = AuIdle]
                         /\ auRet' = AuReturned(p, c, c.res.resp, "nil")
    /\ UNCHANGED <<now, auOthers>>

\* recordFailure under the write lock: u.preferred = getOtherProtocol(p);
\* ExchangeContext then returns the error.
AuSwitch(p) ==
    /\ auPc[p].pc = "switch"
    /\ AuReaders = {}
    /\ au' = [au EXCEPT !.preferred = getOtherProtocol(auPc[p].selected)]
    /\ auPc' = [auPc EXCEPT ![p] = AuIdle]
    /\ auRet' = AuReturned(p, auPc[p], "nil", auPc[p].res.err)
    /\ UNCHANGED <<now, auOthers>>

\* evaluatePreference under the write lock; ExchangeContext then returns the
\* response.
AuEvaluate(p) ==
    /\ auPc[p].pc = "evaluate"
    /\ AuReaders = {}
    /\ au' = evaluatePreference(au)
    /\ auPc' = [auPc EXCEPT ![p] = AuIdle]
    /\ auRet' = AuReturned(p, auPc[p], auPc[p].res.resp, "nil")
    /\ UNCHANGED <<now, auOthers>>

AuNext ==
    \/ \E p \in AuCallers : AuSelect(p)
    \/ \E p \in AuCallers : AuToggle(p)
    \/ \E p \in AuCallers : AuReturnCurrent(p)
    \/ \E p \in AuCallers, res \in InnerResults : AuExchanged(p, res)
    \/ \E p \in AuCallers : AuAfter(p)
    \/ \E p \in AuCallers : AuSwitch(p)
    \/ \E p \in AuCallers : AuEvaluate(p)

\* --------------------------------------------------------------- ServeUDP
\* A datagram is named by its place in the order the socket delivers them.
\* Its read buffer rb and its dns.Msg q are "none" before pool.GetBuf and
\* pool.GetDNSMsg, "taken" from then on and "released" once given back to the
\* pool.  A worker is named by its index in workerPool.workers; submitted[w]
\* lists the requests sent on its channel and handled[w] the ones its
\* handleRequest was called with, the zero udpRequest being 0.  returned is
\* the loop of ServeUDP left with an error, stopped the deferred
\* workerPool.stop done, cancelled the deferred cancel done.

Datagrams == 1..MaxDatagrams

\* The part of ServeUDP before its loop.  workers is 0 for a nil workerPool.
StartUDP(opts) ==
    LET workerPoolSize == IF opts.WorkerPoolSize <= 0 THEN NumCPU
                                                      ELSE opts.WorkerPoolSize
        workers == IF opts.WorkerPoolSize # 0 THEN workerPoolSize ELSE 0
    IN  [ WorkerPoolSize |-> opts.WorkerPoolSize,
          workers        |-> workers,
          nextWorker     |-> 0,
          requestChan    |-> [w \in 0..(workers - 1) |-> << >>],
          handling       |-> [w \in 0..(workers - 1) |-> 0],
          running        |-> [w \in 0..(workers - 1) |-> TRUE],
          submitted      |-> [w \in 0..(workers - 1) |-> << >>],
          handled        |-> [w \in 0..(workers - 1) |-> << >>],
          read           |-> 0,
          returned       |-> FALSE,
          stopped        |-> FALSE,
          cancelled      |-> FALSE ]

NoDatagram == [rb |-> "none", q |-> "none", stage |-> "unread", by |-> "none"]

\* The worker_pool_size settings the model starts ServeUDP with: negative,
\* not set, and one worker.
WorkerPoolSizes == {-1, 0, 1}

UdpInitWith(sizes) ==
    /\ udp \in { StartUDP([WorkerPoolSize |-> size]) : size \in sizes }
    /\ dg = [d \in Datagrams |-> NoDatagram]

UdpInit == UdpInitWith(WorkerPoolSizes)

\* ServeUDP where the specification of another component leaves it.
UdpAside == UdpInitWith({0})

\* One iteration of the loop whose read returns an error: the buffer goes
\* back to the pool, and with n = 0 ServeUDP returns.
UdpReadError(fatal) ==
    /\ ~udp.returned
    /\ udp.read < MaxDatagrams
    /\ dg' = [dg EXCEPT ![udp.read + 1] =
                [NoDatagram EXCEPT !.rb = "released", !.stage = "dropped"]]
    /\ udp' = [udp EXCEPT !.read = @ + 1, !.returned = fatal]
    /\ UNCHANGED <<now, udpOthers>>

\* One iteration whose datagram does not unpack: both go back to the pool.
UdpInvalid ==
    /\ ~udp.returned
    /\ udp.read < MaxDatagrams
    /\ dg' = [dg EXCEPT ![udp.read + 1] =
                [NoDatagram EXCEPT !.rb = "released", !.q = "released",
                                   !.stage = "dropped"]]
    /\ udp' = [udp EXCEPT !.read = @ + 1]
    /\ UNCHANGED <<now, udpOthers>>

\* One iteration whose datagram unpacks.  With a worker pool: submit sends
\* the request on the channel of the next worker, and ServeUDP releases rb
\* and q.  Without: a goroutine is started for the datagram.
UdpAccept ==
    /\ ~udp.returned
    /\ udp.read < MaxDatagrams
    /\ LET d == udp.read + 1
       IN  IF udp.workers > 0
             THEN /\ Len(udp.requestChan[udp.nextWorker]) < RequestChanDepth
                  /\ udp' = [udp EXCEPT
                               !.read = d,
                               !.requestChan[udp.nextWorker] = Append(@, d),
                               !.submitted[udp.nextWorker] = Append(@, d),
                               !.nextWorker = (@ + 1) % udp.workers]
                  /\ dg' = [dg EXCEPT ![d] =
                              [ rb |-> "released", q |-> "released",
                                stage |-> "queued", by |-> "worker" ]]
             ELSE /\ udp' = [udp EXCEPT !.read = d]
                  /\ dg' = [dg EXCEPT ![d] =
                              [ rb |-> "taken", q |-> "taken",
                                stage |-> "handling", by |-> "goroutine" ]]
    /\ UNCHANGED <<now, udpOthers>>

\* udpWorker.run receives a request and calls handleRequest, which calls
\* handler.Handle with req.q.
UdpWorkerReceives(w) ==
    /\ w \in DOMAIN udp.requestChan
    /\ udp.running[w]
    /\ udp.handling[w] = 0
    /\ udp.requestChan[w] # << >>
    /\ LET d == Head(udp.requestChan[w])
       IN  /\ udp' = [udp EXCEPT !.requestChan[w] = Tail(@), !.handling[w] = d,
                                 !.handled[w] = Append(@, d)]
           /\ dg' = [dg EXCEPT ![d].stage = "handling"]
    /\ UNCHANGED <<now, udpOthers>>

\* The number of zero requests in a sequence of handled requests.
ZeroRequests(handled) == Len(SelectSeq(handled, LAMBDA d : d = 0))

\* udpWorker.run receives from its channel once stop has closed it and it
\* holds no request: the receive yields the zero udpRequest at once, and
\* handleRequest is called with it.
UdpWorkerReceivesClosed(w) ==
    /\ w \in DOMAIN udp.requestChan
    /\ udp.running[w]
    /\ udp.handling[w] = 0
    /\ udp.stopped
    /\ udp.requestChan[w] = << >>
    /\ ZeroRequests(udp.handled[w]) < MaxZeroRequests
    /\ udp' = [udp EXCEPT !.handled[w] = Append(@, 0)]
    /\ UNCHANGED <<now, dg, udpOthers>>

\* udpWorker.run takes the listenerCtx.Done() case of its select and
\* returns.
UdpWorkerExits(w) ==
    /\ w \in DOMAIN udp.requestChan
    /\ udp.running[w]
    /\ udp.handling[w] = 0
    /\ udp.cancelled
    /\ udp' = [udp EXCEPT !.running[w] = FALSE]
    /\ UNCHANGED <<now, dg, udpOthers>>

\* ServeUDP returns: the deferred workerPool.stop() runs first and closes
\* the channel of every worker.
UdpStop ==
    /\ udp.returned
    /\ udp.workers > 0
    /\ ~udp.stopped
    /\ udp' = [udp EXCEPT !.stopped = TRUE]
    /\ UNCHANGED <<now, dg, udpOthers>>

\* The deferred cancel(errListenerCtxCanceled) runs after it.
UdpCancel ==
    /\ udp.returned
    /\ udp.workers > 0 => udp.stopped
    /\ ~udp.cancelled
    /\ udp' = [udp EXCEPT !.cancelled = TRUE]
    /\ UNCHANGED <<now, dg, udpOthers>>

\* handler.Handle returns.  The goroutine of a datagram releases rb and q
\* now; a nil payload ends the handling of the datagram.
UdpHandled(d, payloadNil) ==
    /\ dg[d].stage = "handling"
    /\ dg' = [dg EXCEPT
                ![d].stage = IF payloadNil THEN "dropped" ELSE "handled",
                ![d].rb = IF dg[d].by = "goroutine" THEN "released" ELSE @,
                ![d].q = IF dg[d].by = "goroutine" THEN "released" ELSE @]
    /\ udp' = IF dg[d].by = "worker" /\ payloadNil
                THEN [udp EXCEPT !.handling =
                        [w \in DOMAIN @ |-> IF @[w] = d THEN 0 ELSE @[w]]]
                ELSE udp
    /\ UNCHANGED <<now, udpOthers>>

\* The rest of the goroutine or of handleRequest: the response is written,
\* or dropped for an IPv4-mapped client on an IPv6-only socket.
UdpRespond(d, v4Mapped) ==
    /\ dg[d].stage = "handled"
    /\ dg' = [dg EXCEPT ![d].stage = IF v4Mapped THEN "dropped" ELSE "written"]
    /\ udp' = IF dg[d].by = "worker"
                THEN [udp EXCEPT !.handling =
                        [w \in DOMAIN @ |-> IF @[w] = d THEN 0 ELSE @[w]]]
                ELSE udp
    /\ UNCHANGED <<now, udpOthers>>

UdpNext ==
    \/ \E fatal \in BOOLEAN : UdpReadError(fatal)
    \/ UdpInvalid
    \/ UdpAccept
    \/ \E w \in 0..(NumCPU - 1) : UdpWorkerReceives(w)
    \/ \E w \in 0..(NumCPU - 1) : UdpWorkerReceivesClosed(w)
    \/ \E w \in 0..(NumCPU - 1) : UdpWorkerExits(w)
    \/ UdpStop
    \/ UdpCancel
    \/ \E d \in Datagrams, payloadNil \in BOOLEAN : UdpHandled(d, payloadNil)
    \/ \E d \in Datagrams, v4Mapped \in BOOLEAN : UdpRespond(d, v4Mapped)

\* ---------------------------------------------------------------- Shuffle
\* A resource record is its type and its data; a section of a response is a
\* sequence of records, and a query context without a response has
\* NoResponse for qCtx.R().

TypeOPT == "OPT"
TypeA == "A"

NoResponse == [nil |-> TRUE]

NewShuffle(answer, ns, extra) == [answer |-> answer, ns |-> ns, extra |-> extra]

\* The two records of the sequence rrs at i and j exchanged.
swap(rrs, i, j) == [rrs EXCEPT ![i] = rrs[j], ![j] = rrs[i]]

\* rand.Shuffle: from the last index down to the second, the record there is
\* exchanged with one at a random index not above it.  randShuffle is every
\* sequence this can make.
RECURSIVE shuffleFrom(_, _)
shuffleFrom(rrs, i) ==
    IF i <= 1
      THEN {rrs}
      ELSE UNION { shuffleFrom(swap(rrs, i, j), i - 1) : j \in 1..i }

randShuffle(rrs) == shuffleFrom(rrs, Len(rrs))

\* The records of Extra that are not OPT, in their order.
filterExtra(extra) == SelectSeq(extra, LAMBDA rr : rr.Rrtype # TypeOPT)

\* Extra built again: an OPT record stays, every other place takes the next
\* of the shuffled records.
RECURSIVE newExtra(_, _)
newExtra(extra, filtered) ==
    IF extra = << >>
      THEN << >>
      ELSE IF Head(extra).Rrtype = TypeOPT
             THEN <<Head(extra)>> \o newExtra(Tail(extra), filtered)
             ELSE IF Len(filtered) > 0
                    THEN <<Head(filtered)>>
                             \o newExtra(Tail(extra), Tail(filtered))
                    ELSE newExtra(Tail(extra), filtered)

\* A variant that shuffles Extra the way it shuffles the other sections.
ExecShufflesWholeExtra(s, r) ==
    IF r = NoResponse
      THEN {r}
      ELSE { [Answer |-> a, Ns |-> n, Extra |-> e] :
               a \in IF s.answer /\ Len(r.Answer) > 0
                       THEN randShuffle(r.Answer) ELSE {r.Answer},
               n \in IF s.ns /\ Len(r.Ns) > 0
                       THEN randShuffle(r.Ns) ELSE {r.Ns},
               e \in IF s.extra /\ Len(r.Extra) > 0
                       THEN randShuffle(r.Extra) ELSE {r.Extra} }

\* Shuffle.Exec on the response r: every response it can leave.
Exec(s, r) ==
    IF r = NoResponse
      THEN {r}
      ELSE { [Answer |-> a, Ns |-> n, Extra |-> e] :
               a \in IF s.answer /\ Len(r.Answer) > 0
                       THEN randShuffle(r.Answer) ELSE {r.Answer},
               n \in IF s.ns /\ Len(r.Ns) > 0
                       THEN randShuffle(r.Ns) ELSE {r.Ns},
               e \in IF s.extra /\ Len(r.Extra) > 0
                       THEN IF Len(filterExtra(r.Extra)) > 0
                              THEN { newExtra(r.Extra, f) :
                                       f \in randShuffle(filterExtra(r.Extra)) }
                              ELSE {r.Extra}
                       ELSE {r.Extra} }

\* The sequences of at most n records of the set rrs.
SeqsUpTo(rrs, n) == UNION { [1..k -> rrs] : k \in 0..n }

PlainRRs == { [Rrtype |-> TypeA, Rdata |-> i] : i \in 1..2 }
ExtraRRs == PlainRRs \cup { [Rrtype |-> TypeOPT, Rdata |-> 0] }

Responses ==
    [ Answer : SeqsUpTo(PlainRRs, MaxPlain),
      Ns     : SeqsUpTo(PlainRRs, MaxPlain),
      Extra  : SeqsUpTo(ExtraRRs, MaxSection) ]

ShufInitWith(shuffles, responses) ==
    shuf \in [ s : shuffles, r : responses, before : {NoResponse},
               executed : {FALSE} ]

ShufInit ==
    ShufInitWith({ NewShuffle(a, n, e) : a, n, e \in BOOLEAN },
                 Responses \cup {NoResponse})

\* A Shuffle where the specification of another component leaves it: the
\* one of QuickSetup, and no response.
ShufAside == ShufInitWith({NewShuffle(TRUE, FALSE, FALSE)}, {NoResponse})

ShuffleExec ==
    /\ \E r \in Exec(shuf.s, shuf.r) :
         shuf' = [shuf EXCEPT !.r = r, !.before = shuf.r, !.executed = TRUE]
    /\ UNCHANGED <<now, shufOthers>>

ShufNext == ShuffleExec

\* ---------------------------------------------------------- specifications

\* Every specification starts from the construction of its component, in
\* each of the configurations the model has for it, with the other components
\* constructed and left alone.
Init ==
    /\ now = 0
    /\ CbInit
    /\ AtAside
    /\ RqInit
    /\ PoolAside
    /\ SelInit
    /\ DoqInit
    /\ AuInit
    /\ LoopInit
    /\ UdpAside
    /\ ShufAside

InitTimeout ==
    /\ now = 0
    /\ CbInit
    /\ AtInit
    /\ RqInit
    /\ PoolAside
    /\ SelInit
    /\ DoqInit
    /\ AuInit
    /\ LoopInit
    /\ UdpAside
    /\ ShufAside

InitPool ==
    /\ now = 0
    /\ CbInit
    /\ AtAside
    /\ RqInit
    /\ PoolInit
    /\ SelInit
    /\ DoqInit
    /\ AuInit
    /\ LoopInit
    /\ UdpAside
    /\ ShufAside

SpecBreaker == Init /\ [][CbNext]_vars

SpecQueue == Init /\ [][RqNext]_vars

SpecPool == InitPool /\ [][PoolNext]_vars

SpecTimeout == InitTimeout /\ [][AtNext]_vars

SpecSelector == Init /\ [][SelNext]_vars

SpecDoQ == Init /\ [][DoqNext]_vars

SpecAdaptive == Init /\ [][AuNext]_vars

SpecSelectLoop == Init /\ [][LoopNext]_vars

InitUDP ==
    /\ now = 0
    /\ CbInit
    /\ AtAside
    /\ RqInit
    /\ PoolAside
    /\ SelInit
    /\ DoqInit
    /\ AuInit
    /\ LoopInit
    /\ UdpInit
    /\ ShufAside

SpecUDP == InitUDP /\ [][UdpNext]_vars

InitShuffle ==
    /\ now = 0
    /\ CbInit
    /\ AtAside
    /\ RqInit
    /\ PoolAside
    /\ SelInit
    /\ DoqInit
    /\ AuInit
    /\ LoopInit
    /\ UdpAside
    /\ ShufInit

SpecShuffle == InitShuffle /\ [][ShufNext]_vars

\* ---------------------------------------------- CircuitBreaker: the claims

\* A step in which caller p finishes beforeExecute.
CbDecides(p) == cbPc[p] = "before" /\ cbPc'[p] # "before"

\* A step that is afterExecute(failed = true).
CbFailureStep == cb'.failures = cb.failures + 1

\* C2: from Closed the failure that brings failures to max_failures opens the
\* breaker; an Open breaker rejects beforeExecute while less than reset_timeout
\* has passed since the last failure, and once reset_timeout has passed the
\* next beforeExecute moves it to HalfOpen and admits the call.
C2_OpenThenProbe ==
    [][ /\ ( /\ CbFailureStep
             /\ cb.state = StateClosed
             /\ cb.failures + 1 >= cb.maxFailures )
           => cb'.state = StateOpen
        /\ \A p \in Callers :
             ( /\ CbDecides(p)
               /\ cbSeen[p] = StateOpen
               /\ cb.state = StateOpen
               /\ cb.lastFailureTime.dyn # "nil" )
             => IF now - cb.lastFailureTime.t >= cb.resetTimeout
                  THEN cb'.state = StateHalfOpen /\ cbPc'[p] = "exec"
                  ELSE cb'.state = StateOpen /\ cbPc'[p] = "idle"
      ]_vars

\* C4: with a callback registered, every step that changes the state invokes
\* the callback exactly once, with (old, new), and a step that leaves the state
\* alone invokes no callback.
C4_CallbackOnEveryEdge ==
    [][ (cb.onStateChange /\ cb'.onStateChange)
          => IF cb'.state # cb.state
               THEN cb'.fired = << <<cb.state, cb'.state>> >>
               ELSE cb'.fired = << >>
      ]_vars

\* C11: Reset leaves the breaker as NewCircuitBreaker made it: state Closed,
\* failures 0, successes 0, half-open success count 0 and no last failure
\* time recorded.
C11_ResetGivesFresh ==
    [][ CbReset =>
          /\ cb'.state = StateClosed
          /\ cb'.failures = 0
          /\ cb'.successCount = 0
          /\ cb'.halfOpenSuccess = 0
          /\ cb'.lastFailureTime = NoValue
      ]_vars

\* What Reset does bring back, and a second Reset changes nothing.
CbResetClosesAndZeroes ==
    [][ CbReset =>
          /\ cb'.state = StateClosed
          /\ cb'.failures = 0
          /\ cb'.halfOpenSuccess = 0
          /\ Reset(cb') = cb'
      ]_vars

\* C12: a successful call in HalfOpen counts in half_open_success, the one
\* that brings it to half_open_attempts closes the breaker with failures and
\* half_open_success 0, and a failed call in HalfOpen opens the breaker with
\* half_open_success 0 and last_failure_time stamped with the time of the call.
C12_HalfOpenRecovery ==
    [][ \A p \in Callers, failed \in BOOLEAN :
          (CbAfterExecute(p, failed) /\ cb.state = StateHalfOpen) =>
            IF failed
              THEN /\ cb'.state = StateOpen
                   /\ cb'.halfOpenSuccess = 0
                   /\ cb'.lastFailureTime.dyn # "nil"
                   /\ cb'.lastFailureTime.t = now
              ELSE IF cb.halfOpenSuccess + 1 >= cb.halfOpenAttempts
                     THEN /\ cb'.state = StateClosed
                          /\ cb'.failures = 0
                          /\ cb'.halfOpenSuccess = 0
                     ELSE /\ cb'.state = StateHalfOpen
                          /\ cb'.halfOpenSuccess = cb.halfOpenSuccess + 1
      ]_vars

\* The state changes of section 4.3.
LegalEdges ==
    { <<StateClosed, StateOpen>>, <<StateOpen, StateHalfOpen>>,
      <<StateHalfOpen, StateClosed>>, <<StateHalfOpen, StateOpen>> }

\* C26: whatever the callers of beforeExecute and afterExecute do and however
\* they interleave, a step other than Reset that changes the state takes it
\* from Closed to Open, from Open to HalfOpen, from HalfOpen to Closed or from
\* HalfOpen to Open.
C26_OnlyLegalEdges ==
    [][ (cb'.state # cb.state /\ ~CbReset)
          => <<cb.state, cb'.state>> \in LegalEdges
      ]_vars

\* A failed call has opened a Closed breaker that has a callback.
C26_Witness ==
    /\ cb.state = StateOpen
    /\ cb.fired = << <<StateClosed, StateOpen>> >>

\* C27: in Closed a failed call adds one to failures and a successful call
\* sets failures to 0; the failed call that brings failures to max_failures,
\* and no other call, opens the breaker and stamps last_failure_time; a
\* Closed breaker has fewer than max_failures failures.
C27_ClosedCountsFailures ==
    [][ /\ \A p \in Callers, failed \in BOOLEAN :
             (CbAfterExecute(p, failed) /\ cb.state = StateClosed) =>
               IF failed
                 THEN /\ cb'.failures = cb.failures + 1
                      /\ cb'.lastFailureTime = [dyn |-> "*time.Time", t |-> now]
                      /\ cb'.state = IF cb.failures + 1 = cb.maxFailures
                                       THEN StateOpen ELSE StateClosed
                 ELSE /\ cb'.failures = 0
                      /\ cb'.state = StateClosed
        /\ cb'.state = StateClosed => cb'.failures < cb'.maxFailures
      ]_vars

\* The breaker has opened at the failure that made failures max_failures,
\* after a success had set failures back to 0.
C27_Witness ==
    /\ cb.state = StateOpen
    /\ cb.failures = cb.maxFailures
    /\ cb.successCount >= 1
    /\ cb.lastFailureTime.dyn # "nil"
    /\ \A p \in Callers : cbPc[p] = "idle"

\* No operation of the breaker brings it to HalfOpen.
CbNeverHalfOpen == cb.state # StateHalfOpen

\* --------------------------------------------- AdaptiveTimeout: the claims

\* C5: whatever configuration the AdaptiveTimeout was built from and whatever
\* was recorded, GetTimeout() lies between min_timeout and max_timeout.
C5_TimeoutWithinBounds ==
    /\ at.minTimeout <= GetTimeout(at)
    /\ GetTimeout(at) <= at.maxTimeout

\* The same for the configurations whose min_timeout is at most max_timeout.
AtBoundsWhenOrdered ==
    at.minTimeout <= at.maxTimeout => C5_TimeoutWithinBounds

\* C28: RecordTimeout adds one to consecutive_timeouts, leaves srtt alone
\* below 3 consecutive timeouts and multiplies it by min(congestion_mult,
\* 1 + 0.5 n) from the third on, changes neither rttvar nor samples, and
\* never makes GetTimeout() smaller, also when the product is beyond the
\* range of a duration.  Stated for the configurations whose min_timeout is
\* at most max_timeout.
C28_TimeoutNeverLowersGetTimeout ==
    [][ (AtRecordTimeout /\ at.minTimeout <= at.maxTimeout) =>
          /\ at'.consecutiveTimeouts = at.consecutiveTimeouts + 1
          /\ at'.rttVar = at.rttVar
          /\ at'.samples = at.samples
          /\ at'.consecutiveTimeouts < 3 => at'.srtt = at.srtt
          /\ GetTimeout(at') >= GetTimeout(at)
      ]_vars

\* The same for the timeouts whose product, and the sum GetTimeout makes of
\* it, stay within the range of a duration.
AtTimeoutRaisesInRange ==
    [][ (AtRecordTimeout /\ at.minTimeout <= at.maxTimeout /\ at.srtt >= 0) =>
          LET n == at.consecutiveTimeouts + 1
              mult2 == IF at.congestionMult2 < 2 + n THEN at.congestionMult2
                                                     ELSE 2 + n
              product == TruncDiv(at.srtt * mult2, 2)
          IN  /\ at'.consecutiveTimeouts = n
              /\ at'.rttVar = at.rttVar
              /\ at'.samples = at.samples
              /\ n < 3 => at'.srtt = at.srtt
              /\ (n >= 3 /\ product + 4 * at.rttVar <= DurMax) =>
                   /\ at'.srtt = product
                   /\ GetTimeout(at') >= GetTimeout(at)
      ]_vars

\* ------------------------------------------------ RequestQueue: the claims

\* C6: the queue never holds more than max_size requests.
C6_LenAtMostMaxSize == Len(rq.heap) <= rq.maxSize

\* A full queue has just turned a request away.
C6_Witness ==
    /\ Len(rq.heap) = rq.maxSize
    /\ rqRet.op = "Enqueue"
    /\ rqRet.err = "ErrQueueFull"

\* The positions of h whose request has not expired at time t.
Valid(q, t) == { i \in 1..Len(q.heap) : t - q.heap[i].Timer <= q.maxWaitTime }

\* How many requests of h have priority p and timer tm.
CountOf(h, p, tm) ==
    Cardinality({ i \in 1..Len(h) : h[i].Priority = p /\ h[i].Timer = tm })

\* A step that is a Dequeue call.
DequeueStep == rqRet'.op = "Dequeue" /\ now' = now

\* C7: Dequeue returns nil with no error and leaves the queue empty when no
\* queued request is unexpired; otherwise it returns, and takes out of the
\* queue, an unexpired request whose priority value is the smallest among the
\* unexpired ones, every other unexpired request stays queued, and a Dequeue
\* that follows a Dequeue returns a priority value that is not smaller.
C7_DequeueLowestUnexpired ==
    [][ DequeueStep =>
          /\ rqRet'.err = "nil"
          /\ IF Valid(rq, now) = {}
               THEN rqRet'.req = << >> /\ rq'.heap = << >>
               ELSE /\ Len(rqRet'.req) = 1
                    /\ LET r == rqRet'.req[1]
                       IN  /\ now - r.Timer <= rq.maxWaitTime
                           /\ \A i \in Valid(rq, now) :
                                r.Priority <= rq.heap[i].Priority
                           /\ \A i \in Valid(rq, now) :
                                LET p == rq.heap[i].Priority
                                    tm == rq.heap[i].Timer
                                IN  CountOf(rq'.heap, p, tm) =
                                      CountOf(rq.heap, p, tm)
                                        - (IF p = r.Priority /\ tm = r.Timer
                                             THEN 1 ELSE 0)
                           /\ (rqRet.op = "Dequeue" /\ rqRet.req # << >>)
                                => rqRet.req[1].Priority <= r.Priority
      ]_vars

\* A Dequeue has returned a request after popping an expired one, with
\* requests left behind.
C7_Witness ==
    /\ rqRet.op = "Dequeue"
    /\ rqRet.req # << >>
    /\ rqRet.skipped >= 1
    /\ Len(rq.heap) >= 1

\* A step that is an Enqueue call.
EnqueueStep == rqRet'.op = "Enqueue" /\ now' = now

\* The requests of h as a bag of (priority, timer) pairs.
RqBag(h) ==
    [ pt \in { <<h[i].Priority, h[i].Timer>> : i \in 1..Len(h) } |->
        CountOf(h, pt[1], pt[2]) ]

\* C23: Enqueue on a queue that holds max_size requests returns ErrQueueFull,
\* adds one to dropped_count and leaves the queued requests as they are;
\* Enqueue on a queue that holds fewer returns no error, makes the queue one
\* longer and leaves both counters alone.
C23_EnqueueFullOrAccepted ==
    [][ EnqueueStep =>
          IF Len(rq.heap) >= rq.maxSize
            THEN /\ rqRet'.err = "ErrQueueFull"
                 /\ rq'.droppedCount = rq.droppedCount + 1
                 /\ rq'.processedCount = rq.processedCount
                 /\ rq'.heap = rq.heap
            ELSE /\ rqRet'.err = "nil"
                 /\ Len(rq'.heap) = Len(rq.heap) + 1
                 /\ \A pt \in DOMAIN RqBag(rq.heap) :
                      /\ pt \in DOMAIN RqBag(rq'.heap)
                      /\ RqBag(rq'.heap)[pt] >= RqBag(rq.heap)[pt]
                 /\ rq'.droppedCount = rq.droppedCount
                 /\ rq'.processedCount = rq.processedCount
      ]_vars

\* An Enqueue on a full queue has been turned away and counted, after an
\* earlier one was accepted.
C23_Witness ==
    /\ rqRet.op = "Enqueue"
    /\ rqRet.err = "ErrQueueFull"
    /\ rq.droppedCount = 1
    /\ Len(rq.heap) = rq.maxSize
    /\ rq.maxSize > 0

\* A step that is a Process call.
ProcessStep == rqRet'.op = "Process" /\ now' = now

\* The requests of h whose wait exceeds maxWaitTime at time t.
RqExpired(q, t) == { i \in 1..Len(q.heap) : t - q.heap[i].Timer > q.maxWaitTime }

\* C39: Enqueue removes no queued request, expired or not, and on a queue
\* that holds max_size requests, all of them expired, it returns ErrQueueFull
\* and leaves the queue as it is.
C39_EnqueueKeepsExpired ==
    [][ EnqueueStep =>
          /\ \A pt \in DOMAIN RqBag(rq.heap) :
               /\ pt \in DOMAIN RqBag(rq'.heap)
               /\ RqBag(rq'.heap)[pt] >= RqBag(rq.heap)[pt]
          /\ Len(rq'.heap) >= Len(rq.heap)
          /\ (Len(rq.heap) = rq.maxSize /\ Cardinality(RqExpired(rq, now)) = rq.maxSize) =>
                 /\ rqRet'.err = "ErrQueueFull"
                 /\ rq'.heap = rq.heap
      ]_vars

\* An Enqueue has been turned away by a queue whose max_size requests have
\* all waited for more than max_wait_time.
C39_Witness ==
    /\ rqRet.op = "Enqueue"
    /\ rqRet.err = "ErrQueueFull"
    /\ rq.maxSize > 0
    /\ Len(rq.heap) = rq.maxSize
    /\ Cardinality(RqExpired(rq, now)) = rq.maxSize

\* C29: Process with no unexpired request queued returns no error and
\* changes no counter; otherwise the request it dequeues is counted in
\* exactly one counter, processed_count when Process returns no error and
\* dropped_count when it returns the error of execute.
C29_ProcessCountsEveryRequest ==
    [][ ProcessStep =>
          IF Valid(rq, now) = {}
            THEN /\ rqRet'.err = "nil"
                 /\ rq'.processedCount = rq.processedCount
                 /\ rq'.droppedCount = rq.droppedCount
            ELSE IF rqRet'.err = "nil"
                   THEN /\ rq'.processedCount = rq.processedCount + 1
                        /\ rq'.droppedCount = rq.droppedCount
                   ELSE /\ rq'.droppedCount = rq.droppedCount + 1
                        /\ rq'.processedCount = rq.processedCount
      ]_vars

\* The same for the requests that have an Execute.
RqProcessCountsExecuted ==
    [][ \A failed \in BOOLEAN :
          RqProcess(TRUE, failed) =>
            IF Valid(rq, now) = {}
              THEN /\ rqRet'.err = "nil"
                   /\ rq'.processedCount = rq.processedCount
                   /\ rq'.droppedCount = rq.droppedCount
              ELSE IF failed
                     THEN /\ rqRet'.err # "nil"
                          /\ rq'.droppedCount = rq.droppedCount + 1
                          /\ rq'.processedCount = rq.processedCount
                     ELSE /\ rqRet'.err = "nil"
                          /\ rq'.processedCount = rq.processedCount + 1
                          /\ rq'.droppedCount = rq.droppedCount
      ]_vars

\* The heap order and the index stamps of the queued requests.
RqHeapOrdered ==
    \A i \in 1..Len(rq.heap) :
        /\ rq.heap[i].index = i - 1
        /\ i > 1 => rq.heap[i \div 2].Priority <= rq.heap[i].Priority

\* ---------------------------------------------------- ConnPool: the claims

\* C8: when checkHealth has completed and none of its dials failed, the pool
\* holds at least min_connections connections.
C8_MinAfterHealthCheck ==
    (poolRet.op = "checkHealth" /\ ~poolRet.dialFailed)
        => Len(pool.conns) >= pool.minConnections

\* checkHealth has dialed, with success, in an open pool that had lost a
\* connection before.
C8_Witness ==
    /\ poolRet.op = "checkHealth"
    /\ ~poolRet.dialFailed
    /\ poolRet.dialed >= 1
    /\ ~pool.closed
    /\ \E id \in ConnIds : pcs[id] = Gone

\* C9: the pool never holds more than max_connections connections.
C9_LenAtMostMax == Len(pool.conns) <= pool.maxConnections

\* checkHealth has dialed the pool up to max_connections, in a pool whose
\* min_connections equals max_connections.
C9_Witness ==
    /\ poolRet.op = "checkHealth"
    /\ poolRet.dialed >= 1
    /\ Len(pool.conns) = pool.maxConnections
    /\ pool.minConnections = pool.maxConnections

\* C10: once a Close call has returned the pool holds no connection, and
\* every connection that was dialed has been closed.
C10_EmptyAfterClose ==
    closeReturned =>
        /\ Len(pool.conns) = 0
        /\ \A id \in ConnIds : pcs[id].conn \in {"none", "closed"}

\* The pooled connections Get would reuse at time t.
Reusable(p, c, t) ==
    { id \in Pooled(p) : c[id].healthy /\ t - c[id].lastUsed < p.idleTimeout }

\* C30: Get returns the exhausted error exactly when the pool holds
\* max_connections connections and none of them is reusable, and then it
\* dials nothing and the pool still holds max_connections connections.
C30_ExhaustedWhenFull ==
    [][ \A dialOk \in BOOLEAN :
          PoolGet(dialOk) =>
            LET full == /\ Len(pool.conns) = pool.maxConnections
                        /\ Reusable(pool, pcs, now) = {}
            IN  /\ (poolRet'.err = "exhausted") <=> full
                /\ full => /\ poolRet'.dialed = 0
                           /\ Len(pool'.conns) = pool.maxConnections
      ]_vars

\* No Get returns the exhausted error.
PoolGetNeverExhausted == poolRet.err # "exhausted"

\* The place in conns of a pooled connection.
PlaceOf(p, id) == CHOOSE i \in 1..Len(p.conns) : p.conns[i] = id

\* The pooled connection Get would return at time t is the newest reusable.
NewestReusable(p, c, t, id) ==
    /\ id \in Reusable(p, c, t)
    /\ \A other \in Reusable(p, c, t) : PlaceOf(p, other) <= PlaceOf(p, id)

\* C31: a connection Get returns without dialing is, as Get returns it, the
\* newest of the pooled connections that are healthy and idle for less than
\* idle_timeout, and its connection has not been closed, whatever Release
\* calls and loops run beside it.
C31_GetReturnsUsable ==
    [][ \A dialOk \in BOOLEAN :
          (PoolGet(dialOk) /\ poolRet'.conn # 0 /\ poolRet'.dialed = 0) =>
              /\ NewestReusable(pool, pcs, now, poolRet'.conn)
              /\ pcs[poolRet'.conn].conn # "closed"
              /\ pcs'[poolRet'.conn].conn # "closed"
      ]_vars

\* What Get returns is freshly dialed and open, or the newest of the pooled
\* connections whose healthy flag is set and that were used less than
\* idle_timeout ago.
PoolGetReturnsNewestFlagged ==
    [][ \A dialOk \in BOOLEAN :
          (PoolGet(dialOk) /\ poolRet'.conn # 0) =>
              IF poolRet'.dialed = 1
                THEN /\ pcs[poolRet'.conn].conn = "none"
                     /\ pcs'[poolRet'.conn].conn = "open"
                     /\ pcs'[poolRet'.conn].healthy
                ELSE NewestReusable(pool, pcs, now, poolRet'.conn)
      ]_vars

\* C32: Release(pc, true) leaves conns as it is, stamps lastUsed = now on pc
\* and changes no other connection; Release(pc, false) has closed pc and
\* taken it out of conns when it returns, conns is shorter by one when it
\* held pc and no other connection has changed; a connection that is out of
\* conns does not come back, and Get returns pooled connections only.
C32_ReleaseEffect ==
    [][ /\ \A id \in ConnIds :
             PoolReleaseStamp(id, TRUE) =>
                 /\ pool' = pool
                 /\ id \in Pooled(pool) =>
                        /\ pcs'[id].lastUsed = now
                        /\ pcs'[id].healthy
                        /\ pcs'[id].conn = pcs[id].conn
                 /\ \A other \in ConnIds \ {id} : pcs'[other] = pcs[other]
        /\ \A id \in ConnIds :
             PoolReleaseRemove(id) =>
                 /\ id \notin Pooled(pool')
                 /\ pcs'[id].conn = "closed"
                 /\ Len(pool'.conns) =
                        Len(pool.conns) - (IF id \in Pooled(pool) THEN 1 ELSE 0)
                 /\ Pooled(pool') = Pooled(pool) \ {id}
                 /\ \A other \in ConnIds \ {id} : pcs'[other] = pcs[other]
        /\ \A id \in ConnIds :
             (pcs[id].conn = "closed" /\ id \notin Pooled(pool)) =>
                 /\ id \notin Pooled(pool')
                 /\ \A dialOk \in BOOLEAN :
                      PoolGet(dialOk) => poolRet'.conn # id
        /\ \A dialOk \in BOOLEAN :
             (PoolGet(dialOk) /\ poolRet'.conn # 0) =>
                 poolRet'.conn \in Pooled(pool')
      ]_vars

\* Release(pc, false) has just returned for a connection that was the older
\* of two pooled ones, and the newer one is still pooled.
C32_Witness ==
    /\ poolRet.op = "Release"
    /\ poolRet.conn = 1
    /\ pcs[1].conn = "closed"
    /\ pool.conns = <<2>>
    /\ pcs[2].conn = "open"

\* C36: no connection is held by two callers at once.
C36_OneHolder == \A id \in ConnIds : leased[id] <= 1

\* A caller that holds a connection holds one that Get returned to it.
PoolHeldWasReturned ==
    \A id \in ConnIds : leased[id] > 0 => pcs[id].conn # "none"

\* C38: Get dials only when its scan has left conns empty, and conns never
\* holds more than max(1, min_connections) connections.
C38_DialsOnlyWhenEmpty ==
    [][ /\ \A dialOk \in BOOLEAN :
             (PoolGet(dialOk) /\ poolRet'.dialed = 1) =>
                 /\ GetScan(Here, Len(pool.conns) - 1, now).s.pool.conns = << >>
                 /\ pool'.conns = <<poolRet'.conn>>
        /\ Len(pool.conns) <=
               (IF pool.minConnections > 1 THEN pool.minConnections ELSE 1)
        /\ Len(pool'.conns) <=
               (IF pool'.minConnections > 1 THEN pool'.minConnections ELSE 1)
      ]_vars

\* Get has dialed the second connection for a pool with max_connections 2
\* and min_connections 0, after the first one was removed, and it is the
\* only one pooled.
C38_Witness ==
    /\ poolRet.op = "Get"
    /\ poolRet.dialed = 1
    /\ poolRet.conn = 2
    /\ pool.maxConnections = 2
    /\ pool.minConnections = 0
    /\ pool.conns = <<2>>
    /\ pcs[1].conn = "closed"

\* -------------------------------------------- upstreamSelector: the claims

\* C3: every selectUpstreams(count) call with count >= 1 returns normally,
\* with exactly min(count, N) indices that are pairwise distinct and each in
\* [0, N), whatever counts the earlier calls had and whether or not the call
\* falls inside the cache TTL of an earlier one.
C3_SelectReturnsDistinct ==
    selRet.op = "selectUpstreams" =>
        /\ ~selRet.panicked
        /\ Len(selRet.order) = IF selRet.count < NumUpstreams
                                 THEN selRet.count ELSE NumUpstreams
        /\ \A i \in 1..Len(selRet.order) : selRet.order[i] \in Upstreams
        /\ \A i, j \in 1..Len(selRet.order) :
             i # j => selRet.order[i] # selRet.order[j]

\* A selectUpstreams call that returns does return min(count, N) distinct
\* indices within [0, N).
SelAnsweredDistinct ==
    (selRet.op = "selectUpstreams" /\ ~selRet.panicked) =>
        /\ Len(selRet.order) = IF selRet.count < NumUpstreams
                                 THEN selRet.count ELSE NumUpstreams
        /\ \A i \in 1..Len(selRet.order) : selRet.order[i] \in Upstreams
        /\ \A i, j \in 1..Len(selRet.order) :
             i # j => selRet.order[i] # selRet.order[j]

\* C20: selectUpstreams(count) with count >= N returns the indices 0, 1, ...,
\* N-1 in this order, whatever is cached.
C20_AllInNaturalOrder ==
    (selRet.op = "selectUpstreams" /\ selRet.count >= NumUpstreams) =>
        /\ ~selRet.panicked
        /\ Len(selRet.order) = NumUpstreams
        /\ \A i \in 1..NumUpstreams : selRet.order[i] = i - 1

\* A call with count >= N has returned while a selection that does not begin
\* with index 0 is cached and fresh.
C20_Witness ==
    /\ selRet.op = "selectUpstreams"
    /\ selRet.count >= NumUpstreams
    /\ CacheFresh(sel, now)
    /\ sel.cachedOrder[1] # 0

\* C19: with the latencies of the test and no errors, when the loop of
\* selectUpstreams(1) calls ends, index 0 has been returned more often than
\* the index of the highest latency.
C19_LowestLatencyMoreOften ==
    loop.i = Iterations =>
      loop.selectionCount[0] > loop.selectionCount[NumUpstreams - 1]

\* The first count entries of the cached selection, where it has that many.
IsCachedPrefix(order, s, count) ==
    /\ Len(order) = count
    /\ count <= Len(s.cachedOrder)
    /\ \A i \in 1..count : order[i] = s.cachedOrder[i]

\* C35: within the TTL of the last computation a selectUpstreams(count) call
\* with count < N returns the first count entries of the cached selection
\* and leaves the cache as it is.
C35_FreshCacheServesPrefix ==
    [][ \A p \in SelCallers, count \in 1..(NumUpstreams - 1) :
          (SelReadLocked(p, count) /\ CacheFresh(sel, now)) =>
              /\ ~selRet'.panicked
              /\ IsCachedPrefix(selRet'.order, sel, count)
              /\ sel' = sel
      ]_vars

\* The same for the calls that ask for no more than the cache holds; and a
\* call that finds the cache stale under the write lock replaces it with a
\* selection of count entries made now.
SelCacheServesShorter ==
    [][ /\ \A p \in SelCallers, count \in 1..(NumUpstreams - 1) :
             (SelReadLocked(p, count) /\ CacheFresh(sel, now)
                  /\ count <= Len(sel.cachedOrder)) =>
                 /\ ~selRet'.panicked
                 /\ IsCachedPrefix(selRet'.order, sel, count)
                 /\ sel' = sel
        /\ \A p \in SelCallers :
             (SelWriteLocked(p) /\ ~CacheFresh(sel, now)) =>
                 /\ Len(sel'.cachedOrder) = selPc[p]
                 /\ sel'.lastUpdate = now
                 /\ selRet'.order = sel'.cachedOrder
      ]_vars

\* ------------------------------------------- ResilientQuicConn: the claims

\* C1: when ExchangeReserved returns without error, the query went out with
\* its ID rewritten to 0 and the response returned to the caller carries the
\* ID of the query.
C1_ResponseCarriesQueryId ==
    (doqRet.op = "ExchangeReserved" /\ doqRet.err = "nil") =>
        /\ Uint16(stream.wire, 2) = 0
        /\ Len(doqRet.resp) >= 2
        /\ Uint16(doqRet.resp, 0) = Uint16(doqRet.q, 0)

\* C24: when ExchangeReserved finds the caller's context done it returns the
\* context's error, both sides of the stream have been cancelled with
\* DOQ_REQUEST_CANCELLED, and one timeout has been recorded in the
\* connection's AdaptiveTimeout.
C24_CancelAbortsStream ==
    [][ DoqCancelled =>
          /\ doqRet'.err = "context"
          /\ doqRet'.resp = << >>
          /\ stream'.cancelRead = "DOQ_REQUEST_CANCELLED"
          /\ stream'.cancelWrite = "DOQ_REQUEST_CANCELLED"
          /\ doq'.timeout.consecutiveTimeouts =
               doq.timeout.consecutiveTimeouts + 1
      ]_vars

\* What a cancelled ExchangeReserved does do: it returns the context's error
\* and no response, records one timeout, and leaves the stream to the
\* goroutine that runs exchangeOnStream.
DoqCancelReturnsAndRecords ==
    [][ DoqCancelled =>
          /\ doqRet'.err = "context"
          /\ doqRet'.resp = << >>
          /\ doq'.timeout.consecutiveTimeouts =
               doq.timeout.consecutiveTimeouts + 1
          /\ doq'.timeout.samples = doq.timeout.samples
          /\ stream' = stream
      ]_vars

\* C33: once max_failures exchanges in a row have failed, every one of
\* them recorded as a timeout in the AdaptiveTimeout, the connection's
\* CircuitBreaker is Open.
C33_FailuresOpenBreaker ==
    doq.timeout.consecutiveTimeouts >= doq.breaker.maxFailures =>
        doq.breaker.state = StateOpen

\* No exchange changes the CircuitBreaker of the connection.
DoqBreakerUntouched == doq.breaker = NewResilientQuicConn.breaker

\* ----------------------------------------------------- ServeUDP: the claims

\* C21: the dns.Msg of a datagram is not back in the pool while the
\* datagram waits for a worker or while handler.Handle runs on it, with a
\* worker pool as well as with a goroutine for each datagram.
C21_HeldWhileInUse ==
    \A d \in Datagrams :
        dg[d].stage \in {"queued", "handling"} => dg[d].q # "released"

\* The same without a worker pool.
UdpGoroutineHoldsWhileInUse ==
    udp.workers = 0 =>
        \A d \in Datagrams :
            dg[d].stage \in {"queued", "handling"} =>
                /\ dg[d].rb # "released"
                /\ dg[d].q # "released"

\* C22: with worker_pool_size left 0 a datagram that is handled is handled
\* by one of NumCPU workers.
C22_DefaultRunsNumCPUWorkers ==
    udp.WorkerPoolSize = 0 =>
        \A d \in Datagrams :
            dg[d].stage \in {"queued", "handling", "handled", "written"} =>
                /\ udp.workers = NumCPU
                /\ dg[d].by = "worker"

\* With a negative worker_pool_size there are NumCPU workers, and every
\* datagram that is handled is handled by one of them.
UdpNegativeRunsNumCPUWorkers ==
    udp.WorkerPoolSize < 0 =>
        /\ udp.workers = NumCPU
        /\ DOMAIN udp.requestChan = 0..(NumCPU - 1)
        /\ \A d \in Datagrams :
             dg[d].stage \in {"queued", "handling", "handled", "written"} =>
                 dg[d].by = "worker"

\* s is the beginning of t.
UdpIsPrefix(s, t) ==
    /\ Len(s) <= Len(t)
    /\ \A i \in 1..Len(s) : s[i] = t[i]

\* C37: the requests a worker has called its handler with are, in order,
\* the first of the requests submitted to its channel, each once, whether
\* ServeUDP is running or has returned, stopped the pool and cancelled the
\* context.
C37_WorkerHandlesSubmitted ==
    \A w \in DOMAIN udp.handled :
        UdpIsPrefix(udp.handled[w], udp.submitted[w])

\* The same until workerPool.stop() has closed the channels.
UdpHandlesSubmittedUntilStop ==
    ~udp.stopped =>
        \A w \in DOMAIN udp.handled :
            UdpIsPrefix(udp.handled[w], udp.submitted[w])

\* Every request a worker has handled other than the zero request was
\* submitted to it, and these are handled once, in the order submitted.
UdpSubmittedHandledInOrder ==
    \A w \in DOMAIN udp.handled :
        UdpIsPrefix(SelectSeq(udp.handled[w], LAMBDA d : d # 0),
                    udp.submitted[w])

\* ------------------------------------------------------ Shuffle: the claims

\* The records of a section counted by value.
RRBag(rrs) ==
    [ rr \in { rrs[i] : i \in DOMAIN rrs } |->
        Cardinality({ i \in DOMAIN rrs : rrs[i] = rr }) ]

SameRecords(before, after) ==
    /\ Len(after) = Len(before)
    /\ RRBag(after) = RRBag(before)

\* C25: after Exec every section of the response has the length and the
\* records it had before, a section whose flag is off is as it was, and
\* every OPT record of Extra is at the index it had.
C25_ExecKeepsRecords ==
    (shuf.executed /\ shuf.before # NoResponse) =>
        /\ shuf.r # NoResponse
        /\ SameRecords(shuf.before.Answer, shuf.r.Answer)
        /\ SameRecords(shuf.before.Ns, shuf.r.Ns)
        /\ SameRecords(shuf.before.Extra, shuf.r.Extra)
        /\ ~shuf.s.answer => shuf.r.Answer = shuf.before.Answer
        /\ ~shuf.s.ns => shuf.r.Ns = shuf.before.Ns
        /\ ~shuf.s.extra => shuf.r.Extra = shuf.before.Extra
        /\ \A i \in DOMAIN shuf.before.Extra :
             shuf.before.Extra[i].Rrtype = TypeOPT =>
                 shuf.r.Extra[i] = shuf.before.Extra[i]

\* Exec has changed the order of Extra around an OPT record, and the order
\* of Answer, and left Ns, whose flag is off, with two different records.
C25_Witness ==
    /\ shuf.executed
    /\ shuf.before # NoResponse
    /\ shuf.s = NewShuffle(TRUE, FALSE, TRUE)
    /\ Len(shuf.before.Extra) = 3
    /\ shuf.before.Extra[2].Rrtype = TypeOPT
    /\ shuf.r.Extra # shuf.before.Extra
    /\ shuf.r.Answer # shuf.before.Answer
    /\ Len(shuf.r.Ns) = 2
    /\ shuf.r.Ns[1] # shuf.r.Ns[2]

\* ----------------------------------------- adaptive_doh.Upstream: the claims

\* The sum of the total requests of both protocols.
AuTotal(u) ==
    u.stats[protocolDoH].totalRequests + u.stats[protocolDoH3].totalRequests

\* A step in which caller p runs evaluatePreference past its test of the
\* trial count.
AuEvaluationRuns(p) == AuEvaluate(p) /\ AuTotal(au) >= au.trialCount

AuRateGreater(u, a, b) ==
    /\ u.stats[a].totalRequests > 0
    /\ u.stats[b].totalRequests > 0
    /\ u.stats[a].successRequests * u.stats[b].totalRequests
         > u.stats[b].successRequests * u.stats[a].totalRequests

\* A step in which the ExchangeContext of caller p returns.
AuReturns(p) == auPc[p].pc # "idle" /\ auPc'[p].pc = "idle"

\* C14: when an exchange returns during the trial, having succeeded or
\* failed, and the total of both protocols has reached trial_count, the trial
\* is done.
C14_TrialEndsAtTrialCount ==
    [][ \A p \in AuCallers :
          (AuReturns(p) /\ ~au.trialDone /\ AuTotal(au') >= au.trialCount)
            => au'.trialDone
      ]_vars

\* The same for the exchanges that succeeded.
AuTrialEndsOnSuccess ==
    [][ \A p \in AuCallers :
          ( /\ AuReturns(p)
            /\ auPc[p].res.err = "nil"
            /\ ~au.trialDone
            /\ AuTotal(au') >= au.trialCount )
            => au'.trialDone
      ]_vars

\* How many calls have been given protocol pr by selectProtocol.
AuUsed(pr) ==
    au.stats[pr].totalRequests
      + Cardinality({ p \in AuCallers : /\ auPc[p].pc = "inner"
                                        /\ auPc[p].selected = pr })

\* C15: during the trial the calls are given doh3, doh, doh3, ... in turn, so
\* with no call inside selectProtocol doh3 has been used as often as doh or
\* once more, also when the calls are concurrent.
C15_TrialAlternates ==
    (~au.trialDone /\ AuReaders = {})
      => AuUsed(protocolDoH3) - AuUsed(protocolDoH) \in {0, 1}

\* C16: once the trial is done, preferred changes only in the recordFailure
\* of a failed exchange on the protocol preferred at that moment, the rate of
\* successes of the other protocol being strictly greater.
C16_PreferredChangesOnlyOnFailure ==
    [][ (au.trialDone /\ au'.preferred # au.preferred) =>
          \E p \in AuCallers :
            /\ AuSwitch(p)
            /\ auPc[p].res.err # "nil"
            /\ auPc[p].selected = au.preferred
            /\ AuRateGreater(au, getOtherProtocol(auPc[p].selected),
                             auPc[p].selected)
      ]_vars

\* C17: when a failed exchange on the preferred protocol returns in steady
\* state and, that failure counted, the rate of successes of the other
\* protocol is strictly greater, preferred is the other protocol.
C17_FailureFlipsPreferred ==
    [][ \A p \in AuCallers :
          ( /\ AuReturns(p)
            /\ auPc[p].res.err # "nil"
            /\ au.trialDone
            /\ \/ /\ auPc[p].pc = "after"
                  /\ auPc[p].selected = au.preferred
                  /\ AuRateGreater(au, getOtherProtocol(auPc[p].selected),
                                   auPc[p].selected)
               \/ auPc[p].pc = "switch" )
            => au'.preferred = getOtherProtocol(auPc[p].selected)
      ]_vars

\* Scenario S7: after the trial of S6 a DoH3 exchange has failed, 2 of 3 DoH3
\* exchanges against 2 of 2 DoH exchanges have succeeded, and preferred is
\* doh.
C17_Witness ==
    /\ au.trialDone
    /\ au.stats[protocolDoH].totalRequests = 2
    /\ au.stats[protocolDoH].successRequests = 2
    /\ au.stats[protocolDoH].totalLatency = 10
    /\ au.stats[protocolDoH3].totalRequests = 3
    /\ au.stats[protocolDoH3].successRequests = 2
    /\ au.stats[protocolDoH3].totalLatency = 4
    /\ auRet.op = "ExchangeContext"
    /\ auRet.selected = protocolDoH3
    /\ auRet.err # "nil"
    /\ \A p \in AuCallers : auPc[p].pc = "idle"
    /\ au.preferred = protocolDoH

\* C18: a returned ExchangeContext has invoked one inner exchanger, the one
\* of the selected protocol, once; when that returned an error the call
\* returned the same error and no response.
C18_OneInnerExchange ==
    auRet.op = "ExchangeContext" =>
      /\ Len(auRet.inner) = 1
      /\ auRet.inner[1] = auRet.selected
      /\ auRet.innerErr # "nil" =>
           (auRet.err = auRet.innerErr /\ auRet.resp = "nil")
      /\ auRet.innerErr = "nil" => auRet.err = "nil"

\* A DoH3 exchange refused during the trial has returned its error.
C18_Witness ==
    /\ auRet.op = "ExchangeContext"
    /\ auRet.inner = <<protocolDoH3>>
    /\ auRet.innerErr = "connection refused"
    /\ auRet.err = "connection refused"
    /\ auRet.resp = "nil"
    /\ ~au.trialDone

\* C34: the trial ends once: trialDone, once true, stays true, and no
\* evaluatePreference assigns preferred when trialDone is already true, so
\* that preferred is assigned by an evaluation at most once, however the
\* concurrent exchanges interleave.
C34_TrialEndsOnce ==
    [][ /\ au.trialDone => au'.trialDone
        /\ \A p \in AuCallers : AuEvaluationRuns(p) => ~au.trialDone
      ]_vars

\* trialDone, once true, stays true.
AuTrialDoneStays ==
    [][ au.trialDone => au'.trialDone ]_vars

\* C40: an evaluation does not set preferred to a protocol that has no
\* successful exchange when the other protocol has at least one and has
\* failed in less than half of its exchanges.
C40_NeverPrefersUnsuccessful ==
    [][ \A p \in AuCallers :
          AuEvaluationRuns(p) =>
            \A pr \in Protocols :
              LET own == au.stats[pr]
                  other == au.stats[getOtherProtocol(pr)]
              IN  ( /\ own.successRequests = 0
                    /\ other.successRequests >= 1
                    /\ 2 * other.failedRequests < other.totalRequests )
                    => au'.preferred # pr
      ]_vars

\* An evaluation does not set preferred to doh3 when DoH3 has no successful
\* exchange.
AuEvaluationNeverPrefersFailedDoH3 ==
    [][ \A p \in AuCallers :
          ( /\ AuEvaluationRuns(p)
            /\ au.stats[protocolDoH3].successRequests = 0 )
            => au'.preferred = protocolDoH
      ]_vars

====
